---- MODULE Spec2Model ----
(***************************************************************************)
(* State-machine model of the devTinder front end: the discovery feed      *)
(* (Dashboard), the chat screen (Chat), the real-time channel manager      *)
(* (SocketProvider) and the date-separator rendering of the chat timeline. *)
(* Every screen is a React function component: its state is the useState   *)
(* cells, an event handler runs to completion up to its first await, and   *)
(* the continuation of an await runs when the request resolves, with the   *)
(* values its closure captured when the handler was called.                *)
(***************************************************************************)
EXTENDS Integers, Sequences, FiniteSets, TLC

VARIABLES
    \* ---- Dashboard (discovery feed) ----
    potentialMatches,   \* the current batch: a sequence of candidate ids
    currentIndex,       \* the zero-based cursor into the batch
    dashLoading,        \* Dashboard's `loading`
    swiping,            \* single-flight guard of handleSwipe
    showFilters,        \* the filter modal is open
    filters,            \* the FilterOptions record
    dashFetches,        \* GET /users/potential-matches in flight, in issue order
    swipeReq,           \* POST /matches/swipe in flight, with handleSwipe's closure
    decided,            \* candidates whose decision succeeded since the batch was set
    dashToast,          \* the notification shown last by Dashboard
    \* ---- Chat screen ----
    chatMounted,        \* a Chat instance is mounted
    chatInst,           \* number of Chat instances mounted so far (the current one's id)
    chatId,             \* the route parameter
    chat,               \* ChatData | null
    newMessage,         \* the input field, a sequence of characters
    chatLoading,        \* Chat's `loading`
    sending,            \* single-flight guard of handleSendMessage
    typing,             \* the local typing flag
    otherUserTyping,    \* the other party's typing flag
    timers,             \* pending idle timeouts, each with the closure of its callback
    listeners,          \* handlers registered on the socket by the Chat effect
    emitted,            \* events this client has emitted on the socket, in order
    chatFetches,        \* GET /chat/:chatId/messages in flight
    chatPosts,          \* POST /chat/:chatId/messages in flight
    serverNextId,       \* the id the server gives the next persisted message
    chatToast,          \* the notification shown last by Chat
    route,              \* the screen the router shows
    burstKeys,          \* keystrokes since the idle timer last expired
    burstStarts,        \* typing_start events emitted since the idle timer last expired
    \* ---- Session store and real-time channel manager (SocketProvider) ----
    user,               \* the session's user object, or none
    userCount,          \* user objects the session store has created
    token,              \* the credential in localStorage
    providerMounted,    \* ProtectedRoute renders SocketProvider
    sockets,            \* every socket io() has created, in creation order
    socket,             \* SocketProvider's `socket` state: an index into sockets, or 0
    effectUser,         \* the user object the effect last ran for
    effectSocket,       \* the newSocket of the effect whose cleanup has not run, or 0
    onlineUsers,        \* SocketProvider's `onlineUsers`
    lastPresence,       \* per id, the last of user_online / user_offline received
    \* ---- Rendering of the chat timeline ----
    messages,           \* the timestamps of chat.messages, in timeline order
    now,                \* the viewer's clock at render time
    rendered,           \* per message: is a separator shown before it, and its label
    \* ---- Presence status line ----
    presence,           \* the user record a status line is computed for, and the clock
    statusText,         \* the status line of each of the three screens
    \* ---- The other participant's open chat screen ----
    relayed,            \* how many of this client's emitted events the server has handled
    wire,               \* receive_message events on their way to the other participant
    peerChat,           \* the other participant's ChatData
    \* ---- History of the discovery feed's requests ----
    appliedFilters,     \* the FilterOptions of the last Apply / Clear (initially all-empty)
    dashStale,          \* per batch request in flight: a later-issued one has been answered
    shownStale,         \* the batch shown answered a request older than one already answered
    \* ---- Presence updates of the channel manager ----
    presencePuts,       \* PUT /users/online-status requests in flight: "online" / "offline"
    lastPut,            \* the presence update issued last ("none" before the first)
    \* ---- Matches (conversation list) ----
    matchesLoading,     \* Matches' `loading`
    matchesGets,        \* the two GETs of fetchData: "pending" / "fulfilled" / "rejected"
    matchesLoaded,      \* setMatches and setChats have been called
    matchesToast        \* the last toast of Matches

dashVars == <<potentialMatches, currentIndex, dashLoading, swiping, showFilters,
              filters, dashFetches, swipeReq, decided, dashToast>>

chatVars == <<chatMounted, chatInst, chatId, chat, newMessage, chatLoading, sending,
              typing, otherUserTyping, timers, listeners, emitted, chatFetches,
              chatPosts, serverNextId, chatToast, route, burstKeys, burstStarts>>

sockVars == <<user, userCount, token, providerMounted, sockets, socket, effectUser, effectSocket,
              onlineUsers, lastPresence, presencePuts, lastPut>>

dateVars == <<messages, now, rendered>>

presVars == <<presence, statusText>>

peerVars == <<relayed, wire, peerChat>>

feedVars == <<appliedFilters, dashStale, shownStale>>

matchesVars == <<matchesLoading, matchesGets, matchesLoaded, matchesToast>>

vars == <<dashVars, chatVars, sockVars, dateVars, presVars, peerVars, feedVars, matchesVars>>

----------------------------------------------------------------------------
(* Bounds of the model *)

\* longest batch the server returns
MaxBatch == 2
\* most batch requests the user keeps in flight by Refresh / Apply / Clear
MaxInFlight == 1

\* most Chat instances mounted in one run
MaxMounts == 1
\* the user stops typing, submitting and opening chats once this many events were emitted
MaxEmit == 3
\* the server stops pushing live messages to a timeline of this length
MaxTimeline == 2
\* most keystrokes in one burst
MaxBurst == 2
\* longest history the server returns
MaxHistory == 1

\* most user objects the session store creates (logins and profile updates)
MaxUserObjects == 3
\* most sockets the manager opens
MaxSockets == 3
\* Presence updates in flight at once.
MaxPuts == 2

\* longest timeline rendered
MaxRendered == 3
\* latest instant of the rendering clock
MaxTick == 5
\* instants per calendar day
TicksPerDay == 2

\* oldest last-seen a status line is computed for, in whole minutes
MaxAgeMinutes == 2880

Candidates == {"u1", "u2", "u3"}

\* The keys of FilterOptions, and the keys the modelled user edits.
FilterKeys == {"minAge", "maxAge", "skills", "experienceLevel", "location", "lookingFor"}
EditedKeys == {"minAge"}
FilterValues == {"", "x"}

\* Batches the server may return: candidate sequences without repetition.
Batches == UNION {{b \in [1..n -> Candidates] : \A i, j \in 1..n : i # j => b[i] # b[j]}
                  : n \in 0..MaxBatch}

NoToast == "none"

----------------------------------------------------------------------------
(* Dashboard *)

EmptyFilters == [k \in FilterKeys |-> ""]

\* The optional argument of fetchPotentialMatches: absent, or a FilterOptions.
Undefined == [given |-> FALSE, value |-> EmptyFilters]
Given(f) == [given |-> TRUE, value |-> f]

\* A fetchPotentialMatches that also sends the empty fields of the record.
BuildParams_KeepsEmpty(filterParams) ==
    IF ~filterParams.given
    THEN {}
    ELSE {<<key, filterParams.value[key]>> : key \in FilterKeys}

\* URLSearchParams built by fetchPotentialMatches: the entries of the given
\* record whose value is truthy, nothing when no record is given.
BuildParams(filterParams) ==
    IF ~filterParams.given
    THEN {}
    ELSE {<<key, filterParams.value[key]>> : key \in {k \in FilterKeys : filterParams.value[k] # ""}}

\* No swipe request in flight.
NoSwipe == [target |-> "none", action |-> "none", index |-> 0, length |-> 0,
            filters |-> EmptyFilters]

\* What Dashboard renders: the spinner, the "No more profiles" screen, or a card.
DashView ==
    IF dashLoading THEN "spinner"
    ELSE IF Len(potentialMatches) = 0 \/ currentIndex >= Len(potentialMatches)
         THEN "empty"
         ELSE "card"

DashInit ==
    /\ potentialMatches = <<>>
    /\ currentIndex = 0
    /\ dashLoading = TRUE
    /\ swiping = FALSE
    /\ showFilters = FALSE
    /\ filters = EmptyFilters
    \* the mount effect has called fetchPotentialMatches()
    /\ dashFetches = << [params |-> BuildParams(Undefined), fromSwipe |-> FALSE] >>
    /\ swipeReq = NoSwipe
    /\ decided = {}
    /\ dashToast = NoToast

\* fetchPotentialMatches up to its await: the request is issued.
fetchPotentialMatches(filterParams, fromSwipe) ==
    dashFetches' = Append(dashFetches,
                          [params |-> BuildParams(filterParams), fromSwipe |-> fromSwipe])

RemoveAt(s, i) == [j \in 1..(Len(s) - 1) |-> IF j < i THEN s[j] ELSE s[j + 1]]

\* The GET resolves: the batch replaces the old one and the cursor is reset;
\* finally loading is cleared; when handleSwipe awaited it, its finally
\* releases the guard.
fetchResolved(i, batch) ==
    /\ i \in 1..Len(dashFetches)
    /\ potentialMatches' = batch
    /\ currentIndex' = 0
    /\ dashLoading' = FALSE
    /\ swiping' = IF dashFetches[i].fromSwipe THEN FALSE ELSE swiping
    /\ dashFetches' = RemoveAt(dashFetches, i)
    /\ decided' = {}
    /\ UNCHANGED <<showFilters, filters, swipeReq, dashToast>>

\* A failure of the batch request that leaves handleSwipe's guard held.
fetchRejected_KeepsGuard(i) ==
    /\ i \in 1..Len(dashFetches)
    /\ dashToast' = "Failed to load potential matches"
    /\ dashLoading' = FALSE
    /\ dashFetches' = RemoveAt(dashFetches, i)
    /\ UNCHANGED <<potentialMatches, currentIndex, swiping, showFilters, filters, swipeReq,
                   decided>>

\* The GET fails: a toast, no change of batch or cursor; finally as above.
fetchRejected(i) ==
    /\ i \in 1..Len(dashFetches)
    /\ dashToast' = "Failed to load potential matches"
    /\ dashLoading' = FALSE
    /\ swiping' = IF dashFetches[i].fromSwipe THEN FALSE ELSE swiping
    /\ dashFetches' = RemoveAt(dashFetches, i)
    /\ UNCHANGED <<potentialMatches, currentIndex, showFilters, filters, swipeReq, decided>>

\* A handleSwipe without the single-flight guard, behind buttons that are
\* not disabled while a decision is in flight.
handleSwipe_NoGuard(action) ==
    /\ DashView = "card"
    /\ swiping' = TRUE
    /\ swipeReq' = [target  |-> potentialMatches[currentIndex + 1],
                    action  |-> action,
                    index   |-> currentIndex,
                    length  |-> Len(potentialMatches),
                    filters |-> filters]
    /\ UNCHANGED <<potentialMatches, currentIndex, dashLoading, showFilters,
                   filters, dashFetches, decided, dashToast>>

\* handleSwipe up to its await. The buttons exist only on the card view and
\* are disabled while swiping; the handler's own guard is kept as well.
handleSwipe(action) ==
    /\ DashView = "card"
    /\ ~swiping
    /\ IF swiping \/ currentIndex >= Len(potentialMatches)
       THEN UNCHANGED dashVars
       ELSE /\ swiping' = TRUE
            /\ swipeReq' = [target  |-> potentialMatches[currentIndex + 1],
                            action  |-> action,
                            index   |-> currentIndex,
                            length  |-> Len(potentialMatches),
                            filters |-> filters]
            /\ UNCHANGED <<potentialMatches, currentIndex, dashLoading, showFilters,
                           filters, dashFetches, decided, dashToast>>

\* The POST resolves. currentIndex, potentialMatches and filters are the
\* values the closure captured when the handler was called.
handleSwipeResolved(isMatch) ==
    /\ swipeReq # NoSwipe
    /\ dashToast' = IF isMatch THEN "It's a match!" ELSE dashToast
    /\ decided' = decided \cup {swipeReq.target}
    /\ swipeReq' = NoSwipe
    /\ IF swipeReq.index < swipeReq.length - 1
       THEN /\ currentIndex' = swipeReq.index + 1
            /\ swiping' = FALSE
            /\ UNCHANGED dashFetches
       ELSE /\ fetchPotentialMatches(Given(swipeReq.filters), TRUE)
            /\ UNCHANGED <<currentIndex, swiping>>
    /\ UNCHANGED <<potentialMatches, dashLoading, showFilters, filters>>

\* A failure path of handleSwipe that does not release the guard.
handleSwipeRejected_KeepsGuard ==
    /\ swipeReq # NoSwipe
    /\ dashToast' = "Swipe failed"
    /\ swipeReq' = NoSwipe
    /\ UNCHANGED <<potentialMatches, currentIndex, dashLoading, swiping, showFilters,
                   filters, dashFetches, decided>>

\* The POST fails: a toast, and the guard is released.
handleSwipeRejected ==
    /\ swipeReq # NoSwipe
    /\ dashToast' = "Swipe failed"
    /\ swiping' = FALSE
    /\ swipeReq' = NoSwipe
    /\ UNCHANGED <<potentialMatches, currentIndex, dashLoading, showFilters, filters,
                   dashFetches, decided>>

\* The Refresh button of the "No more profiles" screen.
Refresh ==
    /\ DashView = "empty"
    /\ Len(dashFetches) < MaxInFlight
    /\ fetchPotentialMatches(Undefined, FALSE)
    /\ UNCHANGED <<potentialMatches, currentIndex, dashLoading, swiping, showFilters,
                   filters, swipeReq, decided, dashToast>>

\* The Filters / Adjust Filters buttons.
OpenFilters ==
    /\ DashView \in {"card", "empty"}
    /\ ~showFilters
    /\ showFilters' = TRUE
    /\ UNCHANGED <<potentialMatches, currentIndex, dashLoading, swiping, filters,
                   dashFetches, swipeReq, decided, dashToast>>

\* The modal is part of the card view only.
ModalShown == DashView = "card" /\ showFilters

CancelFilters ==
    /\ ModalShown
    /\ showFilters' = FALSE
    /\ UNCHANGED <<potentialMatches, currentIndex, dashLoading, swiping, filters,
                   dashFetches, swipeReq, decided, dashToast>>

handleFilterChange(key, value) ==
    /\ ModalShown
    /\ filters' = [filters EXCEPT ![key] = value]
    /\ UNCHANGED <<potentialMatches, currentIndex, dashLoading, swiping, showFilters,
                   dashFetches, swipeReq, decided, dashToast>>

applyFilters ==
    /\ ModalShown
    /\ Len(dashFetches) < MaxInFlight
    /\ dashLoading' = TRUE
    /\ fetchPotentialMatches(Given(filters), FALSE)
    /\ showFilters' = FALSE
    /\ UNCHANGED <<potentialMatches, currentIndex, swiping, filters, swipeReq,
                   decided, dashToast>>

clearFilters ==
    /\ ModalShown
    /\ Len(dashFetches) < MaxInFlight
    /\ filters' = EmptyFilters
    /\ dashLoading' = TRUE
    /\ fetchPotentialMatches(Undefined, FALSE)
    /\ showFilters' = FALSE
    /\ UNCHANGED <<potentialMatches, currentIndex, swiping, swipeReq, decided, dashToast>>

\* The history of the batch requests, as the steps of Dashboard make it.
FeedInit ==
    /\ appliedFilters = EmptyFilters
    /\ dashStale = << FALSE >>
    /\ shownStale = FALSE

\* A step that answers no batch request: a request it issues is the newest.
ObserveIssue ==
    /\ dashStale' = IF Len(dashFetches') > Len(dashFetches)
                    THEN Append(dashStale, FALSE)
                    ELSE dashStale
    /\ UNCHANGED shownStale

\* Request i is answered with a batch: the batch shown is its batch, and the
\* requests issued before it are now older than an answered one.
ObserveResolved(i) ==
    /\ shownStale' = dashStale[i]
    /\ dashStale' = RemoveAt([j \in 1..Len(dashStale) |-> IF j < i THEN TRUE ELSE dashStale[j]],
                             i)

\* Request i fails: nothing is shown for it.
ObserveRejected(i) ==
    /\ dashStale' = RemoveAt(dashStale, i)
    /\ UNCHANGED shownStale

FeedFrame == UNCHANGED <<chatVars, sockVars, dateVars, presVars, peerVars, matchesVars>>

\* Dashboard, with the history of its requests recorded.
FeedNext ==
    \/ (\E i \in 1..Len(dashFetches), b \in Batches :
            fetchResolved(i, b) /\ ObserveResolved(i))
            /\ UNCHANGED appliedFilters /\ FeedFrame
    \/ (\E i \in 1..Len(dashFetches) : fetchRejected(i) /\ ObserveRejected(i))
            /\ UNCHANGED appliedFilters /\ FeedFrame
    \/ (\E a \in {"like", "pass"} : handleSwipe(a))
            /\ ObserveIssue /\ UNCHANGED appliedFilters /\ FeedFrame
    \/ (\E m \in BOOLEAN : handleSwipeResolved(m))
            /\ ObserveIssue /\ UNCHANGED appliedFilters /\ FeedFrame
    \/ handleSwipeRejected /\ ObserveIssue /\ UNCHANGED appliedFilters /\ FeedFrame
    \/ Refresh /\ ObserveIssue /\ UNCHANGED appliedFilters /\ FeedFrame
    \/ OpenFilters /\ ObserveIssue /\ UNCHANGED appliedFilters /\ FeedFrame
    \/ CancelFilters /\ ObserveIssue /\ UNCHANGED appliedFilters /\ FeedFrame
    \/ (\E k \in EditedKeys, v \in FilterValues : handleFilterChange(k, v))
            /\ ObserveIssue /\ UNCHANGED appliedFilters /\ FeedFrame
    \/ applyFilters /\ ObserveIssue /\ appliedFilters' = filters /\ FeedFrame
    \/ clearFilters /\ ObserveIssue /\ appliedFilters' = EmptyFilters /\ FeedFrame

DashFrame == UNCHANGED <<chatVars, sockVars, dateVars, presVars, peerVars, feedVars, matchesVars>>

DashNext ==
    \/ (\E i \in 1..Len(dashFetches), b \in Batches : fetchResolved(i, b)) /\ DashFrame
    \/ (\E i \in 1..Len(dashFetches) : fetchRejected(i)) /\ DashFrame
    \/ (\E a \in {"like", "pass"} : handleSwipe(a)) /\ DashFrame
    \/ (\E m \in BOOLEAN : handleSwipeResolved(m)) /\ DashFrame
    \/ handleSwipeRejected /\ DashFrame
    \/ Refresh /\ DashFrame
    \/ OpenFilters /\ DashFrame
    \/ CancelFilters /\ DashFrame
    \/ (\E k \in EditedKeys, v \in FilterValues : handleFilterChange(k, v)) /\ DashFrame
    \/ applyFilters /\ DashFrame
    \/ clearFilters /\ DashFrame



----------------------------------------------------------------------------
(* Rendering of the chat timeline: date separators *)

Ticks == 0..MaxTick

\* Date.prototype.toDateString: the local calendar day of an instant.
ToDateString(t) == t \div TicksPerDay

\* Date.prototype.toLocaleDateString: the localized date of an instant.
ToLocaleDateString(t) == <<"date", t \div TicksPerDay>>

\* yesterday.setDate(yesterday.getDate() - 1): the same time one calendar day earlier.
DayBefore(t) == t - TicksPerDay

formatDateSeparator(timestamp, today) ==
    IF ToDateString(timestamp) = ToDateString(today) THEN <<"Today">>
    ELSE IF ToDateString(timestamp) = ToDateString(DayBefore(today)) THEN <<"Yesterday">>
    ELSE ToLocaleDateString(timestamp)

\* A shouldShowDateSeparator that compares the instants, not their days.
shouldShowDateSeparator_ByInstant(msgs, index) ==
    IF index = 1 THEN TRUE ELSE msgs[index] # msgs[index - 1]

\* shouldShowDateSeparator(message, chat.messages[index - 1]); the message
\* before the first one is undefined.
shouldShowDateSeparator(msgs, index) ==
    IF index = 1 THEN TRUE
    ELSE ToDateString(msgs[index]) # ToDateString(msgs[index - 1])

\* chat.messages.map: each message with its optional separator.
RenderMessages(msgs, today) ==
    [index \in 1..Len(msgs) |->
        [separator |-> shouldShowDateSeparator(msgs, index),
         label     |-> IF shouldShowDateSeparator(msgs, index)
                       THEN formatDateSeparator(msgs[index], today)
                       ELSE <<>>,
         timestamp |-> msgs[index]]]

Timelines == UNION {[1..n -> Ticks] : n \in 0..MaxRendered}

DateIdle ==
    /\ messages = <<>>
    /\ now = 0
    /\ rendered = <<>>

DateInit ==
    /\ messages \in Timelines
    /\ now \in Ticks
    /\ rendered = <<>>

\* Chat renders its timeline.
Render ==
    /\ rendered' = RenderMessages(messages, now)
    /\ UNCHANGED <<messages, now>>

DateFrame == UNCHANGED <<dashVars, chatVars, sockVars, presVars, peerVars, feedVars, matchesVars>>

DateNext == Render /\ DateFrame

----------------------------------------------------------------------------
(* Session store (AuthContext) and real-time channel manager (SocketProvider) *)

\* The viewing identity of the chat and discovery screens.
Me == "me"
SessionIds == {"me", "you"}
OnlineIds == {"u1", "u2"}

NoUser == [present |-> FALSE, id |-> "none", obj |-> 0]
NoToken == <<>>
\* The credential the server issues to identity id.
TokenOf(id) == <<"token", id>>
NoSocket == 0

\* The sockets the manager has not closed.
OpenSockets == {i \in 1..Len(sockets) : sockets[i].state # "closed"}

\* The effect of SocketProvider has a cleanup to run: its dependency `user`
\* changed, or the provider was unmounted.
CleanupPending ==
    effectSocket # NoSocket /\ (~providerMounted \/ user # effectUser)

\* The effect has its body to run: the provider is mounted and the effect
\* has not run for this user object.
SetupPending ==
    providerMounted /\ user # effectUser

\* React has flushed the effects of the last render.
EffectsFlushed == ~CleanupPending /\ ~SetupPending

SockInit ==
    /\ user = NoUser
    /\ userCount = 0
    /\ token = NoToken
    /\ providerMounted = FALSE
    /\ sockets = <<>>
    /\ socket = NoSocket
    /\ effectUser = NoUser
    /\ effectSocket = NoSocket
    /\ onlineUsers = <<>>
    /\ lastPresence = [id \in OnlineIds |-> "none"]
    /\ presencePuts = <<>>
    /\ lastPut = "none"

\* The state the protected screens start in: the session of "me" is
\* established and the provider's effect has opened and connected its socket.
SockReady ==
    /\ user = [present |-> TRUE, id |-> Me, obj |-> 1]
    /\ userCount = 1
    /\ token = TokenOf(Me)
    /\ providerMounted = TRUE
    /\ sockets = << [auth |-> TokenOf(Me), state |-> "connected"] >>
    /\ socket = 1
    /\ effectUser = [present |-> TRUE, id |-> Me, obj |-> 1]
    /\ effectSocket = 1
    /\ onlineUsers = <<>>
    /\ lastPresence = [id \in OnlineIds |-> "none"]
    /\ presencePuts = <<>>
    /\ lastPut = "online"

\* axios.put('/users/online-status', {isOnline}): the request is issued; its
\* outcome arrives later.
IssuePut(isOnline) ==
    /\ Len(presencePuts) < MaxPuts
    /\ presencePuts' = Append(presencePuts, isOnline)
    /\ lastPut' = isOnline

NoPut == UNCHANGED <<presencePuts, lastPut>>

\* A new mount of SocketProvider starts from its initial state.
ProviderFresh ==
    /\ socket' = NoSocket
    /\ onlineUsers' = <<>>
    /\ lastPresence' = [id \in OnlineIds |-> "none"]

\* Login or registration: the session and its credential are created;
\* PublicRoute redirects to the protected routes, which mount the provider.
Login(id) ==
    /\ NoPut
    /\ EffectsFlushed
    /\ ~user.present
    /\ userCount < MaxUserObjects
    /\ Len(sockets) < MaxSockets
    /\ userCount' = userCount + 1
    /\ user' = [present |-> TRUE, id |-> id, obj |-> userCount + 1]
    /\ token' = TokenOf(id)
    /\ providerMounted' = TRUE
    /\ ProviderFresh
    /\ UNCHANGED <<sockets, effectUser, effectSocket>>

\* Logout (Navbar): the session is destroyed; ProtectedRoute renders the
\* redirect instead of the provider.
Logout ==
    /\ NoPut
    /\ EffectsFlushed
    /\ user.present
    /\ user' = NoUser
    /\ token' = NoToken
    /\ providerMounted' = FALSE
    /\ UNCHANGED <<userCount, sockets, socket, effectUser, effectSocket, onlineUsers, lastPresence>>

\* updateUser (Profile): the user object is replaced by a new one.
updateUser ==
    /\ NoPut
    /\ EffectsFlushed
    /\ user.present
    /\ providerMounted
    /\ userCount < MaxUserObjects
    /\ Len(sockets) < MaxSockets
    /\ userCount' = userCount + 1
    /\ user' = [user EXCEPT !.obj = userCount + 1]
    /\ UNCHANGED <<token, providerMounted, sockets, socket, effectUser, effectSocket,
                   onlineUsers, lastPresence>>

\* The router leaves the protected routes while the session exists.
ProviderUnmount ==
    /\ NoPut
    /\ EffectsFlushed
    /\ providerMounted
    /\ providerMounted' = FALSE
    /\ UNCHANGED <<user, userCount, token, sockets, socket, effectUser, effectSocket, onlineUsers,
                   lastPresence>>

\* The router enters the protected routes with a session.
ProviderMount ==
    /\ NoPut
    /\ EffectsFlushed
    /\ ~providerMounted
    /\ user.present
    /\ Len(sockets) < MaxSockets
    /\ providerMounted' = TRUE
    /\ ProviderFresh
    /\ UNCHANGED <<user, userCount, token, sockets, effectUser, effectSocket>>

\* An effect cleanup that forgets to close its socket.
EffectCleanup_NoClose ==
    /\ NoPut
    /\ CleanupPending
    /\ effectSocket' = NoSocket
    /\ effectUser' = IF providerMounted THEN effectUser ELSE NoUser
    /\ UNCHANGED <<user, userCount, token, providerMounted, sockets, socket, onlineUsers, lastPresence>>

\* The cleanup of the effect: newSocket.close(). Closing a connected socket
\* fires its 'disconnect' handler at once; closing one that is not connected
\* fires nothing.
EffectCleanup ==
    /\ CleanupPending
    /\ sockets' = [sockets EXCEPT ![effectSocket].state = "closed"]
    /\ IF sockets[effectSocket].state = "connected"
       THEN IssuePut("offline")
       ELSE NoPut
    /\ effectSocket' = NoSocket
    /\ effectUser' = IF providerMounted THEN effectUser ELSE NoUser
    /\ UNCHANGED <<user, userCount, token, providerMounted, socket, onlineUsers, lastPresence>>

\* An effect body that opens its socket without the stored credential.
EffectSetup_NoAuth ==
    /\ NoPut
    /\ SetupPending
    /\ ~CleanupPending
    /\ effectUser' = user
    /\ IF user.present
       THEN /\ sockets' = Append(sockets, [auth |-> NoToken, state |-> "connecting"])
            /\ socket' = Len(sockets) + 1
            /\ effectSocket' = Len(sockets) + 1
       ELSE UNCHANGED <<sockets, socket, effectSocket>>
    /\ UNCHANGED <<user, userCount, token, providerMounted, onlineUsers, lastPresence>>

\* The body of the effect, run after the cleanup of the previous run: with a
\* user, io() opens a socket authenticated with the stored token, and setSocket.
EffectSetup ==
    /\ NoPut
    /\ SetupPending
    /\ ~CleanupPending
    /\ effectUser' = user
    /\ IF user.present
       THEN /\ sockets' = Append(sockets, [auth |-> token, state |-> "connecting"])
            /\ socket' = Len(sockets) + 1
            /\ effectSocket' = Len(sockets) + 1
       ELSE UNCHANGED <<sockets, socket, effectSocket>>
    /\ UNCHANGED <<user, userCount, token, providerMounted, onlineUsers, lastPresence>>

\* A 'connect' handler that does not announce the presence.
connect_NoAnnounce(i) ==
    /\ EffectsFlushed
    /\ i \in 1..Len(sockets)
    /\ sockets[i].state \in {"connecting", "disconnected"}
    /\ sockets' = [sockets EXCEPT ![i].state = "connected"]
    /\ NoPut
    /\ UNCHANGED <<user, userCount, token, providerMounted, socket, effectUser, effectSocket,
                   onlineUsers, lastPresence>>

\* The transport connects (or reconnects) socket i: the 'connect' handler
\* announces isOnline = true.
connect(i) ==
    /\ IssuePut("online")
    /\ EffectsFlushed
    /\ i \in 1..Len(sockets)
    /\ sockets[i].state \in {"connecting", "disconnected"}
    /\ sockets' = [sockets EXCEPT ![i].state = "connected"]
    /\ UNCHANGED <<user, userCount, token, providerMounted, socket, effectUser, effectSocket,
                   onlineUsers, lastPresence>>

\* The transport drops socket i; it reconnects by itself. The 'disconnect'
\* handler announces isOnline = false.
disconnect(i) ==
    /\ IssuePut("offline")
    /\ EffectsFlushed
    /\ i \in 1..Len(sockets)
    /\ sockets[i].state = "connected"
    /\ sockets' = [sockets EXCEPT ![i].state = "disconnected"]
    /\ UNCHANGED <<user, userCount, token, providerMounted, socket, effectUser, effectSocket,
                   onlineUsers, lastPresence>>

\* A presence update succeeds: nothing is done with the response.
putResolved(k) ==
    /\ k \in 1..Len(presencePuts)
    /\ presencePuts' = RemoveAt(presencePuts, k)
    /\ UNCHANGED <<user, userCount, token, providerMounted, sockets, socket, effectUser,
                   effectSocket, onlineUsers, lastPresence, lastPut>>

\* A presence update fails: the catch block logs the error.
putRejected(k) ==
    /\ k \in 1..Len(presencePuts)
    /\ presencePuts' = RemoveAt(presencePuts, k)
    /\ UNCHANGED <<user, userCount, token, providerMounted, sockets, socket, effectUser,
                   effectSocket, onlineUsers, lastPresence, lastPut>>

\* The browser unloads the page: handleBeforeUnload announces isOnline = false
\* when there is a user, and the page with its provider and socket is gone;
\* the stored credential and the session it restores remain.
handleBeforeUnload ==
    /\ EffectsFlushed
    /\ providerMounted
    /\ IF user.present
       THEN IssuePut("offline")
       ELSE NoPut
    /\ providerMounted' = FALSE
    /\ sockets' = [i \in 1..Len(sockets) |-> [sockets[i] EXCEPT !.state = "closed"]]
    /\ effectSocket' = NoSocket
    /\ effectUser' = NoUser
    /\ UNCHANGED <<user, userCount, token, socket, onlineUsers, lastPresence>>

Without(seq, id) == SelectSeq(seq, LAMBDA x : x # id)
Range(seq) == {seq[k] : k \in 1..Len(seq)}

\* A connected socket delivers an event to the mounted provider.
Delivers == EffectsFlushed /\ providerMounted /\
            \E i \in OpenSockets : sockets[i].state = "connected"

\* A user_online handler that appends without removing the id first.
user_online_NoFilter(userId) ==
    /\ NoPut
    /\ Delivers
    /\ onlineUsers' = Append(onlineUsers, userId)
    /\ lastPresence' = [lastPresence EXCEPT ![userId] = "online"]
    /\ UNCHANGED <<user, userCount, token, providerMounted, sockets, socket, effectUser, effectSocket>>

\* The user_online handler.
user_online(userId) ==
    /\ NoPut
    /\ Delivers
    /\ onlineUsers' = Append(Without(onlineUsers, userId), userId)
    /\ lastPresence' = [lastPresence EXCEPT ![userId] = "online"]
    /\ UNCHANGED <<user, userCount, token, providerMounted, sockets, socket, effectUser, effectSocket>>

\* The user_offline handler.
user_offline(userId) ==
    /\ NoPut
    /\ Delivers
    /\ onlineUsers' = Without(onlineUsers, userId)
    /\ lastPresence' = [lastPresence EXCEPT ![userId] = "offline"]
    /\ UNCHANGED <<user, userCount, token, providerMounted, sockets, socket, effectUser, effectSocket>>

SockFrame == UNCHANGED <<dashVars, chatVars, dateVars, presVars, peerVars, feedVars, matchesVars>>

SockNext ==
    \/ (\E id \in SessionIds : Login(id)) /\ SockFrame
    \/ Logout /\ SockFrame
    \/ updateUser /\ SockFrame
    \/ ProviderUnmount /\ SockFrame
    \/ ProviderMount /\ SockFrame
    \/ EffectCleanup /\ SockFrame
    \/ EffectSetup /\ SockFrame
    \/ (\E i \in 1..Len(sockets) : connect(i)) /\ SockFrame
    \/ (\E i \in 1..Len(sockets) : disconnect(i)) /\ SockFrame
    \/ (\E id \in OnlineIds : user_online(id)) /\ SockFrame
    \/ (\E id \in OnlineIds : user_offline(id)) /\ SockFrame
    \/ (\E k \in 1..Len(presencePuts) : putResolved(k)) /\ SockFrame
    \/ (\E k \in 1..Len(presencePuts) : putRejected(k)) /\ SockFrame
    \/ handleBeforeUnload /\ SockFrame


----------------------------------------------------------------------------
(* Chat screen *)

\* The idle delay of the typing timer, in milliseconds.
TypingIdleMs == 1000

ChatIds == {"c1", "c2"}
Users == {"me", "other"}
\* Timestamps the server gives to messages.
Times == {1, 2}

\* Values of the input field: sequences of characters.
Texts == {<<>>, <<" ">>, <<"a">>, <<" ", "a">>}

\* String.prototype.trim: leading and trailing white space removed.
RECURSIVE TrimLeft(_)
TrimLeft(s) == IF s # <<>> /\ Head(s) = " " THEN TrimLeft(Tail(s)) ELSE s
RECURSIVE TrimRight(_)
TrimRight(s) ==
    IF s # <<>> /\ s[Len(s)] = " " THEN TrimRight(SubSeq(s, 1, Len(s) - 1)) ELSE s
Trim(s) == TrimRight(TrimLeft(s))

NoChat == [present |-> FALSE, id |-> "none", messages |-> <<>>]

\* A persisted message as the server returns it.
ServerMessage(id, sender, content, timestamp) ==
    [id |-> id, sender |-> sender, content |-> content, timestamp |-> timestamp]

\* Histories the server may return for a conversation.
Histories == UNION {[1..n -> {ServerMessage(0, u, <<"a">>, 1) : u \in Users}]
                    : n \in 0..MaxHistory}

\* The payload of receive_message.
LiveEvents == [chatId : ChatIds, sender : Users, message : {<<"a">>}, timestamp : Times]
\* The payload of user_typing / user_stop_typing.
TypingEvents == [chatId : ChatIds, userId : Users]

\* The message the receive_message handler builds; its _id is Date.now().
LiveMessage(data) ==
    [id |-> -1, sender |-> data.sender, content |-> data.message,
     timestamp |-> data.timestamp]

\* The screen is in the state a setState of instance `inst` still reaches.
Live(inst) == chatMounted /\ inst = chatInst

\* The message form is rendered.
FormShown == chatMounted /\ ~chatLoading /\ chat.present

ChatIdle ==
    /\ chatMounted = FALSE
    /\ chatInst = 0
    /\ chatId = "none"
    /\ chat = NoChat
    /\ newMessage = <<>>
    /\ chatLoading = TRUE
    /\ sending = FALSE
    /\ typing = FALSE
    /\ otherUserTyping = FALSE
    /\ timers = {}
    /\ listeners = {}
    /\ emitted = <<>>
    /\ chatFetches = <<>>
    /\ chatPosts = <<>>
    /\ serverNextId = 1
    /\ chatToast = NoToast
    /\ burstKeys = 0
    /\ burstStarts = 0

\* No Chat is mounted; the router shows the conversation list.
ChatInit == ChatIdle /\ route = "matches"

\* The handlers the socket effect registers for conversation cid.
ChatListeners(cid) ==
    {[event |-> e, chatId |-> cid, userId |-> Me]
        : e \in {"receive_message", "user_typing", "user_stop_typing"}}

\* The cleanup of the socket effect: socket.off for the three events.
SocketOff == {l \in listeners :
                l.event \notin {"receive_message", "user_typing", "user_stop_typing"}}

\* The router mounts Chat for conversation cid: fresh state, the fetch effect
\* calls fetchChat, the socket effect joins the room and registers handlers.
ChatMount(cid) ==
    /\ ~chatMounted
    /\ chatInst < MaxMounts
    /\ Len(emitted) < MaxEmit
    /\ chatMounted' = TRUE
    /\ chatInst' = chatInst + 1
    /\ chatId' = cid
    /\ route' = "chat"
    /\ chat' = NoChat
    /\ newMessage' = <<>>
    /\ chatLoading' = TRUE
    /\ sending' = FALSE
    /\ typing' = FALSE
    /\ otherUserTyping' = FALSE
    /\ chatFetches' = Append(chatFetches, [inst |-> chatInst + 1, chatId |-> cid])
    /\ IF socket # NoSocket
       THEN /\ emitted' = Append(emitted, [event |-> "join_chat", chatId |-> cid,
                                           message |-> <<>>])
            /\ listeners' = listeners \cup ChatListeners(cid)
       ELSE UNCHANGED <<emitted, listeners>>
    /\ burstKeys' = 0
    /\ burstStarts' = 0
    /\ UNCHANGED <<timers, chatPosts, serverNextId, chatToast>>

\* An unmount whose effect cleanup leaves the handlers on the socket.
ChatUnmount_KeepsListeners(to) ==
    /\ chatMounted
    /\ chatMounted' = FALSE
    /\ route' = to
    /\ UNCHANGED <<chatInst, chatId, chat, newMessage, chatLoading, sending, typing,
                   otherUserTyping, timers, listeners, emitted, chatFetches, chatPosts,
                   serverNextId, chatToast, burstKeys, burstStarts>>

\* Chat is unmounted (Back, the navbar, navigate): the socket effect's cleanup runs.
\* The idle timeout is not cleared.
ChatUnmount(to) ==
    /\ chatMounted
    /\ chatMounted' = FALSE
    /\ route' = to
    /\ listeners' = SocketOff
    /\ UNCHANGED <<chatInst, chatId, chat, newMessage, chatLoading, sending, typing,
                   otherUserTyping, timers, emitted, chatFetches, chatPosts,
                   serverNextId, chatToast, burstKeys, burstStarts>>

\* The route parameter of the mounted Chat changes (history navigation from
\* one /chat/:chatId entry to another): the instance and its state are kept,
\* the fetch effect calls fetchChat for the new id, and the socket effect
\* runs its cleanup and then its body for the new id.
ChatIdChange(cid) ==
    /\ chatMounted
    /\ cid # chatId
    /\ Len(emitted) < MaxEmit
    /\ chatId' = cid
    /\ chatFetches' = Append(chatFetches, [inst |-> chatInst, chatId |-> cid])
    /\ IF socket # NoSocket
       THEN /\ emitted' = Append(emitted, [event |-> "join_chat", chatId |-> cid,
                                           message |-> <<>>])
            /\ listeners' = SocketOff \cup ChatListeners(cid)
       ELSE /\ listeners' = SocketOff
            /\ UNCHANGED emitted
    /\ UNCHANGED <<chatMounted, chatInst, chat, newMessage, chatLoading, sending, typing,
                   otherUserTyping, timers, chatPosts, serverNextId, chatToast, route,
                   burstKeys, burstStarts>>

\* fetchChat after its await, success.
fetchChatResolved(i, history) ==
    /\ i \in 1..Len(chatFetches)
    /\ chatFetches' = RemoveAt(chatFetches, i)
    /\ IF Live(chatFetches[i].inst)
       THEN /\ chat' = [present |-> TRUE, id |-> chatFetches[i].chatId, messages |-> history]
            /\ chatLoading' = FALSE
       ELSE UNCHANGED <<chat, chatLoading>>
    /\ UNCHANGED <<chatMounted, chatInst, chatId, newMessage, sending, typing,
                   otherUserTyping, timers, listeners, emitted, chatPosts, serverNextId,
                   chatToast, route, burstKeys, burstStarts>>

\* A failure path of fetchChat that does not navigate away.
fetchChatRejected_NoNavigate(i) ==
    /\ i \in 1..Len(chatFetches)
    /\ chatFetches' = RemoveAt(chatFetches, i)
    /\ chatToast' = "Failed to load chat"
    /\ chatLoading' = IF Live(chatFetches[i].inst) THEN FALSE ELSE chatLoading
    /\ UNCHANGED <<chatMounted, chatInst, chatId, chat, newMessage, sending, typing,
                   otherUserTyping, timers, listeners, emitted, chatPosts, serverNextId,
                   route, burstKeys, burstStarts>>

\* fetchChat after its await, failure: toast, navigate('/matches'), which
\* unmounts whatever Chat instance is shown.
fetchChatRejected(i) ==
    /\ i \in 1..Len(chatFetches)
    /\ chatFetches' = RemoveAt(chatFetches, i)
    /\ chatToast' = "Failed to load chat"
    /\ route' = "matches"
    /\ chatMounted' = FALSE
    /\ listeners' = IF chatMounted THEN SocketOff ELSE listeners
    /\ chatLoading' = IF Live(chatFetches[i].inst) THEN FALSE ELSE chatLoading
    /\ UNCHANGED <<chatInst, chatId, chat, newMessage, sending, typing, otherUserTyping,
                   timers, emitted, chatPosts, serverNextId, burstKeys, burstStarts>>

\* handleTyping, called by the input's onChange after setNewMessage. The
\* timeout's callback closes over the `typing` of the render that created it.
handleTyping ==
    /\ IF ~typing /\ socket # NoSocket /\ chatId # "none"
       THEN /\ typing' = TRUE
            /\ emitted' = Append(emitted, [event |-> "typing_start", chatId |-> chatId,
                                           message |-> <<>>])
            /\ burstStarts' = burstStarts + 1
       ELSE UNCHANGED <<typing, emitted, burstStarts>>
    /\ timers' = {t \in timers : t.inst # chatInst}
                    \cup {[inst |-> chatInst, typing |-> typing, socket |-> socket,
                           chatId |-> chatId]}

\* A change of the input field (enabled while no send is in flight).
Keystroke(value) ==
    /\ FormShown
    /\ ~sending
    /\ value # newMessage
    /\ Len(emitted) < MaxEmit
    /\ burstKeys < MaxBurst
    /\ newMessage' = value
    /\ handleTyping
    /\ burstKeys' = burstKeys + 1
    /\ UNCHANGED <<chatMounted, chatInst, chatId, chat, chatLoading, sending,
                   otherUserTyping, listeners, chatFetches, chatPosts, serverNextId,
                   chatToast, route>>

\* The idle timeout fires, TypingIdleMs after the keystroke that armed it.
TimerExpires(t) ==
    /\ t \in timers
    /\ timers' = timers \ {t}
    /\ IF t.typing /\ t.socket # NoSocket /\ t.chatId # "none"
       THEN /\ typing' = IF Live(t.inst) THEN FALSE ELSE typing
            /\ emitted' = Append(emitted, [event |-> "typing_stop", chatId |-> t.chatId,
                                           message |-> <<>>])
       ELSE UNCHANGED <<typing, emitted>>
    /\ burstKeys' = IF Live(t.inst) THEN 0 ELSE burstKeys
    /\ burstStarts' = IF Live(t.inst) THEN 0 ELSE burstStarts
    /\ UNCHANGED <<chatMounted, chatInst, chatId, chat, newMessage, chatLoading, sending,
                   otherUserTyping, listeners, chatFetches, chatPosts, serverNextId,
                   chatToast, route>>

\* A handleSendMessage that does not clear the input on submit.
handleSendMessage_KeepsInput ==
    /\ FormShown
    /\ ~sending
    /\ Len(emitted) < MaxEmit
    /\ Trim(newMessage) # <<>>
    /\ sending' = TRUE
    /\ chatPosts' = Append(chatPosts, [inst |-> chatInst, chatId |-> chatId,
                                       socket |-> socket,
                                       content |-> Trim(newMessage)])
    /\ UNCHANGED <<chatMounted, chatInst, chatId, chat, newMessage, chatLoading, typing,
                   emitted, otherUserTyping, timers, listeners, chatFetches, serverNextId,
                   chatToast, route, burstKeys, burstStarts>>

\* A handleSendMessage without the blank-input guard.
handleSendMessage_NoBlankGuard ==
    /\ FormShown
    /\ ~sending
    /\ Len(emitted) < MaxEmit
    /\ sending' = TRUE
    /\ newMessage' = <<>>
    /\ IF typing /\ socket # NoSocket
       THEN /\ typing' = FALSE
            /\ emitted' = Append(emitted, [event |-> "typing_stop",
                                           chatId |-> chatId, message |-> <<>>])
       ELSE UNCHANGED <<typing, emitted>>
    /\ chatPosts' = Append(chatPosts, [inst |-> chatInst, chatId |-> chatId,
                                       socket |-> socket,
                                       content |-> Trim(newMessage)])
    /\ UNCHANGED <<chatMounted, chatInst, chatId, chat, chatLoading,
                   otherUserTyping, timers, listeners, chatFetches, serverNextId,
                   chatToast, route, burstKeys, burstStarts>>

\* handleSendMessage up to its await. The form is submitted by the button
\* (disabled when blank or sending) or by Enter in the input (disabled when sending).
handleSendMessage ==
    /\ FormShown
    /\ ~sending
    /\ Len(emitted) < MaxEmit
    /\ IF Trim(newMessage) = <<>> \/ sending \/ chatId = "none"
       THEN UNCHANGED chatVars
       ELSE /\ sending' = TRUE
            /\ newMessage' = <<>>
            /\ IF typing /\ socket # NoSocket
               THEN /\ typing' = FALSE
                    /\ emitted' = Append(emitted, [event |-> "typing_stop",
                                                   chatId |-> chatId, message |-> <<>>])
               ELSE UNCHANGED <<typing, emitted>>
            /\ chatPosts' = Append(chatPosts, [inst |-> chatInst, chatId |-> chatId,
                                               socket |-> socket,
                                               content |-> Trim(newMessage)])
            /\ UNCHANGED <<chatMounted, chatInst, chatId, chat, chatLoading,
                           otherUserTyping, timers, listeners, chatFetches, serverNextId,
                           chatToast, route, burstKeys, burstStarts>>

\* A continuation of handleSendMessage that leaves out the socket emit.
sendResolved_NoEmit(i, timestamp) ==
    /\ i \in 1..Len(chatPosts)
    /\ chatPosts' = RemoveAt(chatPosts, i)
    /\ serverNextId' = serverNextId + 1
    /\ IF Live(chatPosts[i].inst)
       THEN /\ chat' = IF chat.present
                       THEN [chat EXCEPT !.messages =
                                Append(@, ServerMessage(serverNextId, Me,
                                                        chatPosts[i].content, timestamp))]
                       ELSE NoChat
            /\ sending' = FALSE
       ELSE UNCHANGED <<chat, sending>>
    /\ UNCHANGED <<chatMounted, chatInst, chatId, newMessage, chatLoading, typing, emitted,
                   otherUserTyping, timers, listeners, chatFetches, chatToast, route,
                   burstKeys, burstStarts>>

\* handleSendMessage after its await, success: the server's message is
\* appended, send_message is emitted, finally the guard is released.
sendResolved(i, timestamp) ==
    /\ i \in 1..Len(chatPosts)
    /\ chatPosts' = RemoveAt(chatPosts, i)
    /\ serverNextId' = serverNextId + 1
    /\ IF Live(chatPosts[i].inst)
       THEN /\ chat' = IF chat.present
                       THEN [chat EXCEPT !.messages =
                                Append(@, ServerMessage(serverNextId, Me,
                                                        chatPosts[i].content, timestamp))]
                       ELSE NoChat
            /\ sending' = FALSE
       ELSE UNCHANGED <<chat, sending>>
    /\ emitted' = IF chatPosts[i].socket # NoSocket
                  THEN Append(emitted, [event |-> "send_message",
                                        chatId |-> chatPosts[i].chatId,
                                        message |-> chatPosts[i].content])
                  ELSE emitted
    /\ UNCHANGED <<chatMounted, chatInst, chatId, newMessage, chatLoading, typing,
                   otherUserTyping, timers, listeners, chatFetches, chatToast, route,
                   burstKeys, burstStarts>>

\* A failure path of handleSendMessage that does not restore the input.
sendRejected_NoRestore(i) ==
    /\ i \in 1..Len(chatPosts)
    /\ chatPosts' = RemoveAt(chatPosts, i)
    /\ chatToast' = "Failed to send message"
    /\ IF Live(chatPosts[i].inst)
       THEN sending' = FALSE
       ELSE UNCHANGED sending
    /\ UNCHANGED <<chatMounted, chatInst, chatId, chat, newMessage, chatLoading, typing,
                   otherUserTyping, timers, listeners, emitted, chatFetches,
                   serverNextId, route, burstKeys, burstStarts>>

\* handleSendMessage after its await, failure: toast, the input is restored.
sendRejected(i) ==
    /\ i \in 1..Len(chatPosts)
    /\ chatPosts' = RemoveAt(chatPosts, i)
    /\ chatToast' = "Failed to send message"
    /\ IF Live(chatPosts[i].inst)
       THEN /\ newMessage' = chatPosts[i].content
            /\ sending' = FALSE
       ELSE UNCHANGED <<newMessage, sending>>
    /\ UNCHANGED <<chatMounted, chatInst, chatId, chat, chatLoading, typing,
                   otherUserTyping, timers, listeners, emitted, chatFetches,
                   serverNextId, route, burstKeys, burstStarts>>

\* A receive_message handler that puts the live message first.
receive_message_Prepends(data) ==
    /\ Len(chat.messages) < MaxTimeline
    /\ \E l \in listeners :
        /\ l.event = "receive_message"
        /\ chat' = IF data.chatId = l.chatId /\ chat.present
                   THEN [chat EXCEPT !.messages = <<LiveMessage(data)>> \o @]
                   ELSE chat
    /\ UNCHANGED <<chatMounted, chatInst, chatId, newMessage, chatLoading, sending, typing,
                   otherUserTyping, timers, listeners, emitted, chatFetches, chatPosts,
                   serverNextId, chatToast, route, burstKeys, burstStarts>>

\* A receive_message handler that does not compare the conversation id.
receive_message_NoFilter(data) ==
    /\ Len(chat.messages) < MaxTimeline
    /\ \E l \in listeners :
        /\ l.event = "receive_message"
        /\ chat' = IF chat.present
                   THEN [chat EXCEPT !.messages = Append(@, LiveMessage(data))]
                   ELSE NoChat
    /\ UNCHANGED <<chatMounted, chatInst, chatId, newMessage, chatLoading, sending, typing,
                   otherUserTyping, timers, listeners, emitted, chatFetches, chatPosts,
                   serverNextId, chatToast, route, burstKeys, burstStarts>>

\* The socket delivers receive_message to the registered handler.
receive_message(data) ==
    /\ Len(chat.messages) < MaxTimeline
    /\ \E l \in listeners :
        /\ l.event = "receive_message"
        /\ chat' = IF data.chatId = l.chatId
                   THEN IF chat.present
                        THEN [chat EXCEPT !.messages = Append(@, LiveMessage(data))]
                        ELSE NoChat
                   ELSE chat
    /\ UNCHANGED <<chatMounted, chatInst, chatId, newMessage, chatLoading, sending, typing,
                   otherUserTyping, timers, listeners, emitted, chatFetches, chatPosts,
                   serverNextId, chatToast, route, burstKeys, burstStarts>>

\* A user_typing handler that does not compare the sender with the viewer.
user_typing_NoSenderFilter(data) ==
    /\ \E l \in listeners :
        /\ l.event = "user_typing"
        /\ otherUserTyping' = IF data.chatId = l.chatId THEN TRUE ELSE otherUserTyping
    /\ UNCHANGED <<chatMounted, chatInst, chatId, chat, newMessage, chatLoading, sending,
                   typing, timers, listeners, emitted, chatFetches, chatPosts,
                   serverNextId, chatToast, route, burstKeys, burstStarts>>

\* The socket delivers user_typing / user_stop_typing to the registered handler.
user_typing(data) ==
    /\ \E l \in listeners :
        /\ l.event = "user_typing"
        /\ otherUserTyping' = IF data.chatId = l.chatId /\ data.userId # l.userId
                              THEN TRUE ELSE otherUserTyping
    /\ UNCHANGED <<chatMounted, chatInst, chatId, chat, newMessage, chatLoading, sending,
                   typing, timers, listeners, emitted, chatFetches, chatPosts,
                   serverNextId, chatToast, route, burstKeys, burstStarts>>

user_stop_typing(data) ==
    /\ \E l \in listeners :
        /\ l.event = "user_stop_typing"
        /\ otherUserTyping' = IF data.chatId = l.chatId /\ data.userId # l.userId
                              THEN FALSE ELSE otherUserTyping
    /\ UNCHANGED <<chatMounted, chatInst, chatId, chat, newMessage, chatLoading, sending,
                   typing, timers, listeners, emitted, chatFetches, chatPosts,
                   serverNextId, chatToast, route, burstKeys, burstStarts>>

ChatFrame == UNCHANGED <<dashVars, sockVars, dateVars, presVars, peerVars, feedVars, matchesVars>>

ChatNext ==
    \/ (\E c \in ChatIds : ChatMount(c)) /\ ChatFrame
    \/ ChatUnmount("matches") /\ ChatFrame
    \/ (\E i \in 1..Len(chatFetches), h \in Histories : fetchChatResolved(i, h))
            /\ ChatFrame
    \/ (\E i \in 1..Len(chatFetches) : fetchChatRejected(i)) /\ ChatFrame
    \/ (\E v \in Texts : Keystroke(v)) /\ ChatFrame
    \/ (\E t \in timers : TimerExpires(t)) /\ ChatFrame
    \/ handleSendMessage /\ ChatFrame
    \/ (\E i \in 1..Len(chatPosts), ts \in Times : sendResolved(i, ts)) /\ ChatFrame
    \/ (\E i \in 1..Len(chatPosts) : sendRejected(i)) /\ ChatFrame
    \/ (\E d \in LiveEvents : receive_message(d)) /\ ChatFrame
    \/ (\E d \in TypingEvents : user_typing(d)) /\ ChatFrame
    \/ (\E d \in TypingEvents : user_stop_typing(d)) /\ ChatFrame

----------------------------------------------------------------------------
(* Presence status line: getOnlineStatus of Chat, Dashboard and Matches *)

\* 1000 * 60: the milliseconds of a minute.
MsPerMinute == 1000 * 60

\* The decimal digits of a non-negative integer, as a template literal
\* writes them.
DigitChars == <<"0", "1", "2", "3", "4", "5", "6", "7", "8", "9">>
RECURSIVE ToDigits(_)
ToDigits(n) ==
    IF n < 10 THEN <<DigitChars[n + 1]>>
    ELSE ToDigits(n \div 10) \o <<DigitChars[(n % 10) + 1]>>

\* Math.floor of a quotient of integers.
MathFloorDiv(a, b) == a \div b

\* The clock of the render, late enough for every last-seen of the model.
PresenceNow == (MaxAgeMinutes + 1) * MsPerMinute

\* The isOnline field: true, false or absent.
OnlineFlags == {"true", "false", "undefined"}

\* The ages of the last-seen timestamps: every whole minute and the last
\* millisecond before the next one.
LastSeenAges == {m * MsPerMinute + r : m \in 0..MaxAgeMinutes, r \in {0, MsPerMinute - 1}}

\* The lastSeen field: absent, or the time of an ISO timestamp in ms.
NoLastSeen == [given |-> FALSE, time |-> 0]
LastSeens == {NoLastSeen} \cup {[given |-> TRUE, time |-> PresenceNow - a] : a \in LastSeenAges}

PresenceInputs == [isOnline : OnlineFlags, lastSeen : LastSeens, now : {PresenceNow}]

\* A getOnlineStatus whose minutes bucket includes the sixtieth minute.
getOnlineStatus_MinutesUpToSixty(u, nowMs) ==
    IF u.isOnline = "true" THEN <<"O", "n", "l", "i", "n", "e">>
    ELSE IF u.lastSeen.given
    THEN LET diffInMinutes == MathFloorDiv(nowMs - u.lastSeen.time, MsPerMinute)
         IN IF diffInMinutes <= 60
            THEN ToDigits(diffInMinutes) \o <<"m", " ", "a", "g", "o">>
            ELSE IF diffInMinutes < 1440
            THEN ToDigits(MathFloorDiv(diffInMinutes, 60)) \o <<"h", " ", "a", "g", "o">>
            ELSE ToDigits(MathFloorDiv(diffInMinutes, 1440)) \o <<"d", " ", "a", "g", "o">>
    ELSE <<"O", "f", "f", "l", "i", "n", "e">>

\* getOnlineStatus of Chat (the chat header).
getOnlineStatus(u, nowMs) ==
    IF u.isOnline = "true" THEN <<"O", "n", "l", "i", "n", "e">>
    ELSE IF u.lastSeen.given
    THEN LET diffInMinutes == MathFloorDiv(nowMs - u.lastSeen.time, MsPerMinute)
         IN IF diffInMinutes < 60
            THEN ToDigits(diffInMinutes) \o <<"m", " ", "a", "g", "o">>
            ELSE IF diffInMinutes < 1440
            THEN ToDigits(MathFloorDiv(diffInMinutes, 60)) \o <<"h", " ", "a", "g", "o">>
            ELSE ToDigits(MathFloorDiv(diffInMinutes, 1440)) \o <<"d", " ", "a", "g", "o">>
    ELSE <<"O", "f", "f", "l", "i", "n", "e">>

\* getOnlineStatus of Dashboard (the discovery card).
Dashboard_getOnlineStatus(u, nowMs) ==
    IF u.isOnline = "true" THEN <<"O", "n", "l", "i", "n", "e">>
    ELSE IF u.lastSeen.given
    THEN LET diffInMinutes == MathFloorDiv(nowMs - u.lastSeen.time, MsPerMinute)
         IN IF diffInMinutes < 60
            THEN ToDigits(diffInMinutes) \o <<"m", " ", "a", "g", "o">>
            ELSE IF diffInMinutes < 1440
            THEN ToDigits(MathFloorDiv(diffInMinutes, 60)) \o <<"h", " ", "a", "g", "o">>
            ELSE ToDigits(MathFloorDiv(diffInMinutes, 1440)) \o <<"d", " ", "a", "g", "o">>
    ELSE <<"O", "f", "f", "l", "i", "n", "e">>

\* getOnlineStatus of Matches (the conversation list): the text and its colour.
Matches_getOnlineStatus(u, nowMs) ==
    IF u.isOnline = "true"
    THEN [text |-> <<"O", "n", "l", "i", "n", "e">>, color |-> "text-green-600"]
    ELSE IF u.lastSeen.given
    THEN LET diffInMinutes == MathFloorDiv(nowMs - u.lastSeen.time, MsPerMinute)
         IN IF diffInMinutes < 60
            THEN [text  |-> ToDigits(diffInMinutes) \o <<"m", " ", "a", "g", "o">>,
                  color |-> "text-gray-500"]
            ELSE IF diffInMinutes < 1440
            THEN [text  |-> ToDigits(MathFloorDiv(diffInMinutes, 60))
                                \o <<"h", " ", "a", "g", "o">>,
                  color |-> "text-gray-500"]
            ELSE [text  |-> ToDigits(MathFloorDiv(diffInMinutes, 1440))
                                \o <<"d", " ", "a", "g", "o">>,
                  color |-> "text-gray-500"]
    ELSE [text |-> <<"O", "f", "f", "l", "i", "n", "e">>, color |-> "text-gray-500"]

NoStatus == [shown |-> FALSE, chat |-> <<>>, dashboard |-> <<>>, matches |-> <<>>]

PresIdle ==
    /\ presence = [isOnline |-> "undefined", lastSeen |-> NoLastSeen, now |-> PresenceNow]
    /\ statusText = NoStatus

PresInit ==
    /\ presence \in PresenceInputs
    /\ statusText = NoStatus

\* The three screens render the status line of the same user record.
RenderStatus ==
    /\ ~statusText.shown
    /\ statusText' = [shown     |-> TRUE,
                      chat      |-> getOnlineStatus(presence, presence.now),
                      dashboard |-> Dashboard_getOnlineStatus(presence, presence.now),
                      matches   |-> Matches_getOnlineStatus(presence, presence.now).text]
    /\ UNCHANGED presence

PresFrame == UNCHANGED <<dashVars, chatVars, sockVars, dateVars, peerVars, feedVars, matchesVars>>

PresNext == RenderStatus /\ PresFrame

----------------------------------------------------------------------------
(* The other participant's open chat screen, and the server between the two *)

\* The conversation the other participant has open.
PeerChatId == "c1"

PeerInit ==
    /\ relayed = 0
    /\ wire = <<>>
    /\ peerChat = [present |-> TRUE, id |-> PeerChatId, messages |-> <<>>]

\* The server handles the next event this client emitted: a send_message is
\* pushed to the other participant as receive_message with the sender's id and
\* a timestamp. The other participant's socket has joined the room of every
\* conversation it has opened, so it is sent the events of both.
Relay(timestamp) ==
    /\ relayed < Len(emitted)
    /\ relayed' = relayed + 1
    /\ wire' = IF emitted[relayed + 1].event = "send_message"
               THEN Append(wire, [chatId    |-> emitted[relayed + 1].chatId,
                                  sender    |-> Me,
                                  message   |-> emitted[relayed + 1].message,
                                  timestamp |-> timestamp])
               ELSE wire
    /\ UNCHANGED peerChat

\* The receive_message handler of the other participant's Chat.
peer_receive_message ==
    /\ wire # <<>>
    /\ wire' = Tail(wire)
    /\ peerChat' = IF Head(wire).chatId = PeerChatId
                   THEN IF peerChat.present
                        THEN [peerChat EXCEPT !.messages = Append(@, LiveMessage(Head(wire)))]
                        ELSE peerChat
                   ELSE peerChat
    /\ UNCHANGED relayed

PeerFrame == UNCHANGED <<dashVars, chatVars, sockVars, dateVars, presVars, feedVars, matchesVars>>

\* This client's chat screen, the server and the other participant's screen.
DeliveryNext ==
    \/ (\E c \in ChatIds : ChatMount(c)) /\ ChatFrame
    \/ (\E i \in 1..Len(chatFetches), h \in Histories : fetchChatResolved(i, h))
            /\ ChatFrame
    \/ (\E v \in Texts : Keystroke(v)) /\ ChatFrame
    \/ (\E t \in timers : TimerExpires(t)) /\ ChatFrame
    \/ handleSendMessage /\ ChatFrame
    \/ (\E i \in 1..Len(chatPosts), ts \in Times : sendResolved(i, ts)) /\ ChatFrame
    \/ (\E i \in 1..Len(chatPosts) : sendRejected(i)) /\ ChatFrame
    \/ (\E ts \in Times : Relay(ts)) /\ PeerFrame
    \/ peer_receive_message /\ PeerFrame

\* The chat screen with changes of its route parameter.
SwitchNext ==
    \/ (\E c \in ChatIds : ChatMount(c)) /\ ChatFrame
    \/ (\E c \in ChatIds : ChatIdChange(c)) /\ ChatFrame
    \/ ChatUnmount("matches") /\ ChatFrame
    \/ (\E i \in 1..Len(chatFetches), h \in Histories : fetchChatResolved(i, h))
            /\ ChatFrame
    \/ (\E i \in 1..Len(chatFetches) : fetchChatRejected(i)) /\ ChatFrame
    \/ (\E v \in Texts : Keystroke(v)) /\ ChatFrame
    \/ handleSendMessage /\ ChatFrame
    \/ (\E i \in 1..Len(chatPosts), ts \in Times : sendResolved(i, ts)) /\ ChatFrame
    \/ (\E i \in 1..Len(chatPosts) : sendRejected(i)) /\ ChatFrame
    \/ (\E d \in LiveEvents : receive_message(d)) /\ ChatFrame

----------------------------------------------------------------------------
(* Matches (conversation list): fetchData *)

\* The requests of fetchData's Promise.all.
MatchesRequests == <<"/matches/my-matches", "/chat/my-chats">>

\* Matches after its mount: loading, and the mount effect has called fetchData.
MatchesInit ==
    /\ matchesLoading = TRUE
    /\ matchesGets = [k \in 1..Len(MatchesRequests) |-> "pending"]
    /\ matchesLoaded = FALSE
    /\ matchesToast = NoToast

\* Promise.all has rejected: one of its requests has.
AllRejected(gets) == \E k \in 1..Len(MatchesRequests) : gets[k] = "rejected"
\* Promise.all has resolved: all of its requests have.
AllFulfilled(gets) == \A k \in 1..Len(MatchesRequests) : gets[k] = "fulfilled"

\* Request k of fetchData resolves. When it is the last one, Promise.all
\* resolves: the lists are stored and finally loading is cleared.
fetchDataGetResolved(k) ==
    /\ matchesGets[k] = "pending"
    /\ matchesGets' = [matchesGets EXCEPT ![k] = "fulfilled"]
    /\ IF AllFulfilled(matchesGets')
       THEN /\ matchesLoaded' = TRUE
            /\ matchesLoading' = FALSE
       ELSE UNCHANGED <<matchesLoaded, matchesLoading>>
    /\ UNCHANGED matchesToast

\* Request k of fetchData fails. The first failure rejects Promise.all: the
\* catch block toasts and finally loading is cleared; a later one is ignored.
fetchDataGetRejected(k) ==
    /\ matchesGets[k] = "pending"
    /\ matchesGets' = [matchesGets EXCEPT ![k] = "rejected"]
    /\ IF ~AllRejected(matchesGets)
       THEN /\ matchesToast' = "Failed to load matches and chats"
            /\ matchesLoading' = FALSE
       ELSE UNCHANGED <<matchesToast, matchesLoading>>
    /\ UNCHANGED matchesLoaded

MatchesFrame == UNCHANGED <<dashVars, chatVars, sockVars, dateVars, presVars, peerVars, feedVars>>

----------------------------------------------------------------------------
(* The protected routes: one screen at a time, each followed from its mount *)

Routes == {"dashboard", "matches", "chat"}

\* The answers followed: an empty batch, a batch of one and a batch of two;
\* an empty history; one text and one timestamp.
SomeBatches == {<<>>, <<"u1">>, <<"u1", "u2">>}
SomeHistories == {<<>>}
SomeTexts == {<<"a">>}
SomeTimes == {1}

\* The oldest request of each kind is answered.
DashFetchSettles ==
    /\ route = "dashboard"
    /\ \/ \E b \in SomeBatches : fetchResolved(1, b)
       \/ fetchRejected(1)
    /\ DashFrame

SwipeSettles ==
    /\ route = "dashboard"
    /\ \/ \E m \in BOOLEAN : handleSwipeResolved(m)
       \/ handleSwipeRejected
    /\ DashFrame

ChatFetchSettles ==
    /\ \/ \E h \in SomeHistories : fetchChatResolved(1, h)
       \/ fetchChatRejected(1)
    /\ ChatFrame

SendSettles ==
    /\ \/ \E ts \in SomeTimes : sendResolved(1, ts)
       \/ sendRejected(1)
    /\ ChatFrame

MatchesGetSettles(k) ==
    /\ route = "matches"
    /\ (fetchDataGetResolved(k) \/ fetchDataGetRejected(k))
    /\ MatchesFrame

GuardsNext ==
    \/ route = "dashboard" /\ (\E i \in 1..Len(dashFetches), b \in SomeBatches : fetchResolved(i, b))
            /\ DashFrame
    \/ route = "dashboard" /\ (\E i \in 1..Len(dashFetches) : fetchRejected(i)) /\ DashFrame
    \/ route = "dashboard" /\ (\E a \in {"like", "pass"} : handleSwipe(a)) /\ DashFrame
    \/ route = "dashboard" /\ (\E m \in BOOLEAN : handleSwipeResolved(m)) /\ DashFrame
    \/ route = "dashboard" /\ handleSwipeRejected /\ DashFrame
    \/ route = "dashboard" /\ Refresh /\ DashFrame
    \/ route = "dashboard" /\ OpenFilters /\ DashFrame
    \/ route = "dashboard" /\ applyFilters /\ DashFrame
    \/ route = "dashboard" /\ clearFilters /\ DashFrame
    \/ (\E k \in 1..Len(MatchesRequests) : MatchesGetSettles(k))
    \/ route = "chat" /\ (\E c \in ChatIds : ChatMount(c)) /\ ChatFrame
    \/ ChatUnmount("matches") /\ ChatFrame
    \/ (\E i \in 1..Len(chatFetches), h \in SomeHistories : fetchChatResolved(i, h))
            /\ ChatFrame
    \/ (\E i \in 1..Len(chatFetches) : fetchChatRejected(i)) /\ ChatFrame
    \/ (\E v \in SomeTexts : Keystroke(v)) /\ ChatFrame
    \/ handleSendMessage /\ ChatFrame
    \/ (\E i \in 1..Len(chatPosts), ts \in SomeTimes : sendResolved(i, ts)) /\ ChatFrame
    \/ (\E i \in 1..Len(chatPosts) : sendRejected(i)) /\ ChatFrame

Init == DashInit /\ ChatInit /\ SockReady /\ DateIdle /\ PresIdle /\ PeerInit /\ FeedInit /\ MatchesInit

SpecChat == Init /\ [][ChatNext]_vars

\* The user only opens a chat and types: the behaviours of SpecChat in which
\* nothing is submitted and no live event arrives.
TypingNext ==
    \/ (\E c \in ChatIds : ChatMount(c)) /\ ChatFrame
    \/ (\E i \in 1..Len(chatFetches), h \in Histories : fetchChatResolved(i, h))
            /\ ChatFrame
    \/ (\E v \in Texts : Keystroke(v)) /\ ChatFrame
    \/ (\E t \in timers : TimerExpires(t)) /\ ChatFrame

SpecTyping == Init /\ [][TypingNext]_vars

SpecSwitch == Init /\ [][SwitchNext]_vars

SpecDash == Init /\ [][DashNext]_vars

SpecFeed == Init /\ [][FeedNext]_vars

\* The router shows one of the protected screens, freshly mounted (Chat about
\* to be); every request is answered in the end.
InitGuards ==
    /\ DashInit /\ ChatIdle /\ route \in Routes /\ SockReady /\ DateIdle /\ PresIdle
    /\ PeerInit /\ FeedInit /\ MatchesInit

SpecGuards ==
    /\ InitGuards
    /\ [][GuardsNext]_vars
    /\ WF_vars(DashFetchSettles)
    /\ WF_vars(SwipeSettles)
    /\ WF_vars(ChatFetchSettles)
    /\ WF_vars(SendSettles)
    /\ \A k \in 1..Len(MatchesRequests) : WF_vars(MatchesGetSettles(k))

\* The session store and the channel manager, from the logged-out state.
InitLoggedOut == DashInit /\ ChatInit /\ SockInit /\ DateIdle /\ PresIdle /\ PeerInit /\ FeedInit /\ MatchesInit

SpecSock == InitLoggedOut /\ [][SockNext]_vars

\* The rendering of every bounded timeline at every bounded time.
InitRender == DashInit /\ ChatInit /\ SockReady /\ DateInit /\ PresIdle /\ PeerInit /\ FeedInit /\ MatchesInit

SpecRender == InitRender /\ [][DateNext]_vars

\* Two participants and the server; the transport delivers what it carries.
SpecDelivery ==
    /\ Init
    /\ [][DeliveryNext]_vars
    /\ WF_vars((\E ts \in Times : Relay(ts)) /\ PeerFrame)
    /\ WF_vars(peer_receive_message /\ PeerFrame)

\* The status line of every bounded user record.
InitPresence == DashInit /\ ChatInit /\ SockReady /\ DateIdle /\ PresInit /\ PeerInit /\ FeedInit /\ MatchesInit

SpecPresence == InitPresence /\ [][PresNext]_vars


----------------------------------------------------------------------------
(* Discovery feed: claims *)

\* A card is shown and no decision is in flight: the next click on Like or
\* Pass submits the candidate at the cursor.
CanDecide == DashView = "card" /\ ~swiping

\* C2 (as claimed): the candidate at the cursor of the current batch is never
\* one whose decision has already succeeded, so it cannot be submitted again,
\* whatever the outcome of a refetch.
C2_NeverRevisitsDecided ==
    CanDecide => potentialMatches[currentIndex + 1] \notin decided

\* C3 (as claimed): with no batch request in flight, the cursor of a
\* non-empty batch points at one of its candidates, under every interleaving
\* of an in-flight decision with the filter actions.
C3_CursorWithinBatch ==
    (Len(potentialMatches) > 0 /\ dashFetches = <<>>)
        => currentIndex < Len(potentialMatches)

\* C4 (as claimed): when the swipe request succeeds the cursor advances by
\* exactly one from where it is, or, when that would pass the last candidate
\* of the batch, a batch request is issued on behalf of the decision.
C4_SuccessAdvancesByOne ==
    [][(\E m \in BOOLEAN : handleSwipeResolved(m)) =>
          IF currentIndex + 1 < Len(potentialMatches)
          THEN currentIndex' = currentIndex + 1 /\ dashFetches' = dashFetches
          ELSE /\ Len(dashFetches') = Len(dashFetches) + 1
               /\ dashFetches'[Len(dashFetches')].fromSwipe
               /\ currentIndex' = currentIndex]_vars

----------------------------------------------------------------------------
(* Chat screen: claims *)

TypingStop(cid) == [event |-> "typing_stop", chatId |-> cid, message |-> <<>>]

\* C1 (as claimed): when the idle timer of the open chat expires after a
\* burst of keystrokes (of any length >= 1), exactly one typing_start was
\* emitted for the burst, and the expiry emits exactly one typing_stop and
\* clears the local typing flag.
C1_OneStartOneStopPerBurst ==
    [][\A t \in timers :
          (TimerExpires(t) /\ Live(t.inst) /\ burstKeys >= 1) =>
              /\ burstStarts = 1
              /\ emitted' = Append(emitted, TypingStop(chatId))
              /\ typing' = FALSE]_vars

IsPrefix(s, t) == Len(s) <= Len(t) /\ SubSeq(t, 1, Len(s)) = s

\* A durable POST of the mounted screen is in flight.
SendInFlight == \E i \in 1..Len(chatPosts) : Live(chatPosts[i].inst)

\* C5: while the durable POST is in flight the input is empty and the local
\* typing flag is reset; when it succeeds the message the server returned
\* (its id, its timestamp, the posted content) becomes the last element of
\* the timeline, the rest of the timeline unchanged, and carries the only
\* occurrence of its id.
C5_DurableSendSuccess ==
    /\ [](SendInFlight => (newMessage = <<>> /\ ~typing /\ sending))
    /\ [][\A i \in 1..Len(chatPosts), ts \in Times :
            (sendResolved(i, ts) /\ Live(chatPosts[i].inst)) =>
                /\ chat'.present
                /\ chat'.messages =
                     Append(chat.messages,
                            ServerMessage(serverNextId, Me, chatPosts[i].content, ts))
                /\ Cardinality({k \in 1..Len(chat'.messages) :
                                  chat'.messages[k].id = serverNextId}) = 1]_vars

\* C5 witness: a submitted " a" was persisted: the timeline ends with the
\* server's message for the trimmed content, after an earlier message, and
\* the input is empty.
C5_Witness ==
    /\ FormShown
    /\ Len(chat.messages) >= 2
    /\ chat.messages[Len(chat.messages)].id >= 1
    /\ chat.messages[Len(chat.messages)].content = <<"a">>
    /\ newMessage = <<>>
    /\ ~sending

\* C9: in the ready state no live event, keystroke, timer, submit, send
\* success or send failure removes or moves a message of the timeline: each
\* step leaves the old timeline as a prefix of the new one and appends at
\* most one message.
C9_TimelineAppendOnly ==
    [][(FormShown /\ chatMounted' /\ chatInst' = chatInst) =>
          /\ chat'.present
          /\ IsPrefix(chat.messages, chat'.messages)
          /\ Len(chat'.messages) <= Len(chat.messages) + 1]_vars

\* C9 witness: a history message, then a live message appended after it.
C9_Witness ==
    /\ FormShown
    /\ Len(chat.messages) = 2
    /\ chat.messages[1].id = 0
    /\ chat.messages[2].id = -1

----------------------------------------------------------------------------
(* Real-time channel manager: claims *)

\* C6: at most one connection is open at any time, also between the cleanup
\* and the body of the effect when the session identity changes.
C6_AtMostOneOpenSocket == Cardinality(OpenSockets) <= 1

\* C6 witness: the user object was replaced, the first socket is closed and
\* a second one is open.
C6_Witness ==
    /\ Len(sockets) >= 2
    /\ sockets[1].state = "closed"
    /\ 2 \in OpenSockets
    /\ user.obj >= 2

\* C7: once the effects of a render are flushed, a connection is open exactly
\* when the session is non-null and the manager is mounted; then it is the
\* only one, it is the manager's `socket`, and it was opened with the stored
\* credential; each run of the effect body for a session opens exactly one.
C7_ChannelLifecycle ==
    /\ [](EffectsFlushed =>
            /\ (OpenSockets # {}) <=> (user.present /\ providerMounted)
            /\ \A i \in OpenSockets :
                 /\ OpenSockets = {i}
                 /\ socket = i
                 /\ sockets[i].auth = token
                 /\ token = TokenOf(user.id))
    /\ [][(EffectSetup /\ user.present) =>
            /\ Len(sockets') = Len(sockets) + 1
            /\ OpenSockets' = {Len(sockets')}]_vars

\* C7 witness: after a logout and a login as another identity a connection
\* is open with the new credential, the earlier one closed.
C7_Witness ==
    /\ EffectsFlushed
    /\ user.present /\ user.id = "you"
    /\ Len(sockets) = 2
    /\ sockets[1].state = "closed"
    /\ sockets[1].auth = TokenOf(Me)
    /\ sockets[2].state = "connected"
    /\ sockets[2].auth = TokenOf("you")

\* C8: the online set holds no id twice, and an id is in it exactly when the
\* last event received for it was user_online; a user_online for a present
\* id keeps one entry, a user_offline for an absent id changes nothing.
C8_OnlineSetIdempotent ==
    /\ [](/\ \A j, k \in 1..Len(onlineUsers) : j # k => onlineUsers[j] # onlineUsers[k]
          /\ \A id \in OnlineIds :
                (id \in Range(onlineUsers)) <=> (lastPresence[id] = "online"))
    /\ [][\A id \in OnlineIds :
            /\ (user_online(id) /\ id \in Range(onlineUsers)) =>
                    Len(onlineUsers') = Len(onlineUsers)
            /\ (user_offline(id) /\ id \notin Range(onlineUsers)) =>
                    onlineUsers' = onlineUsers]_vars

\* C8 witness: u1 came online twice and u2 came online and went offline.
C8_Witness ==
    /\ onlineUsers = <<"u1">>
    /\ lastPresence["u1"] = "online"
    /\ lastPresence["u2"] = "offline"

\* Some socket of the manager is connected.
Connected == \E i \in 1..Len(sockets) : sockets[i].state = "connected"

\* C24: each connect issues the presence update isOnline = true; each step
\* that ends a connected connection (transport drop, close, page unload with
\* a session) issues isOnline = false; the failure of a presence update
\* changes nothing but the set of requests in flight; and while a connection
\* is connected the update issued last is isOnline = true.
C24_PresenceAnnouncement ==
    /\ [](Connected => lastPut = "online")
    /\ [][/\ (\E i \in 1..Len(sockets) : connect(i)) =>
               /\ Len(presencePuts') = Len(presencePuts) + 1
               /\ presencePuts'[Len(presencePuts')] = "online"
               /\ lastPut' = "online"
          /\ (Connected /\ ~Connected') =>
               /\ Len(presencePuts') = Len(presencePuts) + 1
               /\ presencePuts'[Len(presencePuts')] = "offline"
               /\ lastPut' = "offline"
          /\ (handleBeforeUnload /\ user.present) => lastPut' = "offline"
          /\ (\E k \in 1..Len(presencePuts) : putRejected(k)) =>
               UNCHANGED <<user, token, providerMounted, sockets, socket, onlineUsers,
                           lastPut, dashVars, chatVars>>]_vars

\* C24 witness: the connection dropped and reconnected; the offline update
\* of the drop and the online update of the reconnection are in flight, the
\* latter issued last.
C24_Witness ==
    /\ Connected
    /\ presencePuts = << "offline", "online" >>
    /\ lastPut = "online"
    /\ Len(sockets) = 1
    /\ user.present

----------------------------------------------------------------------------
(* Date separators: claims *)

Ascending(msgs) == \A k \in 1..(Len(msgs) - 1) : msgs[k] <= msgs[k + 1]
DayOf(t) == t \div TicksPerDay

\* The rendering on screen is that of the current timeline.
IsRendered ==
    /\ Len(rendered) = Len(messages)
    /\ \A k \in 1..Len(messages) : rendered[k].timestamp = messages[k]

\* C10: a separator precedes a message exactly when it is the first one or
\* its calendar day differs from the preceding message's; in an ascending
\* timeline each distinct day has exactly one separator, before the day's
\* first message; the separator reads Today for the viewer's day, Yesterday
\* for the day before, the localized date otherwise.
C10_DateSeparators ==
    IsRendered =>
        /\ \A k \in 1..Len(messages) :
              /\ rendered[k].separator <=>
                    (k = 1 \/ DayOf(messages[k]) # DayOf(messages[k - 1]))
              /\ rendered[k].separator =>
                    rendered[k].label =
                        IF DayOf(messages[k]) = DayOf(now) THEN <<"Today">>
                        ELSE IF DayOf(messages[k]) = DayOf(now) - 1 THEN <<"Yesterday">>
                        ELSE <<"date", DayOf(messages[k])>>
        /\ Ascending(messages) =>
              \A d \in {DayOf(messages[k]) : k \in 1..Len(messages)} :
                 LET first == CHOOSE k \in 1..Len(messages) :
                                 /\ DayOf(messages[k]) = d
                                 /\ \A j \in 1..(k - 1) : DayOf(messages[j]) # d
                 IN {k \in 1..Len(messages) :
                        rendered[k].separator /\ DayOf(messages[k]) = d} = {first}

\* C10 witness: three messages in ascending order, the first yesterday and
\* the other two today: Yesterday, Today, and no third separator.
C10_Witness ==
    /\ IsRendered
    /\ Len(messages) = 3
    /\ Ascending(messages)
    /\ DayOf(messages[1]) = DayOf(now) - 1
    /\ messages[2] < messages[3]
    /\ rendered[1].label = <<"Yesterday">>
    /\ rendered[2].label = <<"Today">>
    /\ ~rendered[3].separator

----------------------------------------------------------------------------
(* Presence status line: claims *)

\* The age of the last-seen of the rendered record, in milliseconds.
AgeMs == presence.now - presence.lastSeen.time

\* The text the staleness rule gives for a last-seen d whole minutes ago.
StaleText(d) ==
    IF d < 60 THEN ToDigits(d) \o <<"m", " ", "a", "g", "o">>
    ELSE IF d < 1440
    THEN LET h == CHOOSE x \in 1..23 : x * 60 <= d /\ d < (x + 1) * 60
         IN ToDigits(h) \o <<"h", " ", "a", "g", "o">>
    ELSE LET n == CHOOSE x \in 1..(d + 1) : x * 1440 <= d /\ d < (x + 1) * 1440
         IN ToDigits(n) \o <<"d", " ", "a", "g", "o">>

\* C11: isOnline=true gives "Online" whatever the last-seen; otherwise a
\* last-seen d whole minutes ago gives "<d>m ago" below 60, "<floor(d/60)>h ago"
\* below 1440 and "<floor(d/1440)>d ago" from there on (10 minutes "10m ago",
\* 90 minutes "1h ago", two days "2d ago"), and no last-seen gives "Offline";
\* the chat header, the discovery card and the conversation list show the
\* same text for the same record.
C11_PresenceText ==
    statusText.shown =>
        /\ statusText.dashboard = statusText.chat
        /\ statusText.matches = statusText.chat
        /\ presence.isOnline = "true" => statusText.chat = <<"O", "n", "l", "i", "n", "e">>
        /\ (presence.isOnline # "true" /\ ~presence.lastSeen.given) =>
                statusText.chat = <<"O", "f", "f", "l", "i", "n", "e">>
        /\ (presence.isOnline # "true" /\ presence.lastSeen.given) =>
                /\ \A d \in 0..MaxAgeMinutes :
                      (d * MsPerMinute <= AgeMs /\ AgeMs < (d + 1) * MsPerMinute) =>
                          statusText.chat = StaleText(d)
                /\ AgeMs = 10 * MsPerMinute =>
                      statusText.chat = <<"1", "0", "m", " ", "a", "g", "o">>
                /\ AgeMs = 90 * MsPerMinute =>
                      statusText.chat = <<"1", "h", " ", "a", "g", "o">>
                /\ AgeMs = 2 * 1440 * MsPerMinute =>
                      statusText.chat = <<"2", "d", " ", "a", "g", "o">>

\* C11 witness: a user who is not online and was last seen one millisecond
\* short of 61 minutes ago is shown as "1h ago" on the three screens.
C11_Witness ==
    /\ statusText.shown
    /\ presence.isOnline = "false"
    /\ presence.lastSeen.given
    /\ AgeMs = 61 * MsPerMinute - 1
    /\ statusText.chat = <<"1", "h", " ", "a", "g", "o">>
    /\ statusText.dashboard = <<"1", "h", " ", "a", "g", "o">>
    /\ statusText.matches = <<"1", "h", " ", "a", "g", "o">>

----------------------------------------------------------------------------
(* End-to-end delivery: claims *)

SendMessage(cid, content) == [event |-> "send_message", chatId |-> cid, message |-> content]

\* The send_message events for conversation cid among the first n emitted.
SentTo(cid, n) ==
    SelectSeq(SubSeq(emitted, 1, n),
              LAMBDA e : e.event = "send_message" /\ e.chatId = cid)

\* Sender and text of the messages of a timeline or of the wire.
Attributed(msgs) == [k \in 1..Len(msgs) |-> <<msgs[k].sender, msgs[k].content>>]
AttributedWire(evs) == [k \in 1..Len(evs) |-> <<evs[k].sender, evs[k].message>>]

\* C12: when the durable call of a submit succeeds, the sender's timeline
\* gains exactly one message, with the submitted text and the sender's id,
\* and send_message is emitted for it; the other participant, with the same
\* conversation open, gets the messages this client sent to the conversation,
\* each with its text and this client's id as sender, in the order sent, by
\* receive_message alone; and once one was sent, one arrives.
C12_EndToEndDelivery ==
    /\ [][\A i \in 1..Len(chatPosts), ts \in Times :
            (sendResolved(i, ts) /\ Live(chatPosts[i].inst) /\ chat.present) =>
                /\ Len(chat'.messages) = Len(chat.messages) + 1
                /\ chat'.messages[Len(chat'.messages)].sender = Me
                /\ chat'.messages[Len(chat'.messages)].content = chatPosts[i].content
                /\ emitted' = Append(emitted, SendMessage(chatId, chatPosts[i].content))]_vars
    /\ [](Attributed(peerChat.messages)
            \o AttributedWire(SelectSeq(wire, LAMBDA d : d.chatId = PeerChatId))
          = [k \in 1..Len(SentTo(PeerChatId, relayed)) |->
                <<Me, SentTo(PeerChatId, relayed)[k].message>>])
    /\ (Len(SentTo(PeerChatId, Len(emitted))) >= 1) ~> (Len(peerChat.messages) >= 1)

\* C12 witness: this client submitted " a" in the conversation the other
\* participant has open; its timeline ends with the server's message "a"
\* from itself and the other participant's timeline shows "a" from this client.
C12_Witness ==
    /\ FormShown
    /\ chatId = PeerChatId
    /\ Len(chat.messages) >= 1
    /\ chat.messages[Len(chat.messages)].sender = Me
    /\ chat.messages[Len(chat.messages)].id >= 1
    /\ chat.messages[Len(chat.messages)].content = <<"a">>
    /\ Len(peerChat.messages) = 1
    /\ peerChat.messages[1].sender = Me
    /\ peerChat.messages[1].content = <<"a">>
    /\ wire = <<>>

----------------------------------------------------------------------------
(* Chat screen: history, failure and live events *)

\* C13 (as claimed): the live subscription of a chat screen exists only
\* after its history fetch has resolved: while handlers are registered the
\* fetched timeline is in place and no fetch of the screen is in flight, so
\* no receive_message for the conversation meets a screen without a timeline.
C13_SubscribeAfterHistory ==
    (chatMounted /\ listeners # {}) =>
        /\ chat.present
        /\ \A i \in 1..Len(chatFetches) : ~Live(chatFetches[i].inst)

\* C14: the submit posts the trimmed input and leaves the timeline alone;
\* when the POST fails the input holds the posted content again, the
\* timeline and the emitted events are unchanged, the error toast is shown
\* and the guard is released with a non-blank input, so the submit can be
\* repeated.
C14_SendFailureRollback ==
    [][/\ (handleSendMessage /\ sending') =>
             /\ chat' = chat
             /\ chatPosts'[Len(chatPosts')].content = Trim(newMessage)
       /\ \A i \in 1..Len(chatPosts) :
             (sendRejected(i) /\ Live(chatPosts[i].inst)) =>
                 /\ newMessage' = chatPosts[i].content
                 /\ Trim(newMessage') # <<>>
                 /\ chat' = chat
                 /\ emitted' = emitted
                 /\ chatToast' = "Failed to send message"
                 /\ ~sending'
                 /\ FormShown']_vars

\* C14 witness: the POST of " a" failed: the toast is shown, the input holds
\* "a", the timeline holds the history only and nothing is being sent.
C14_Witness ==
    /\ FormShown
    /\ chatToast = "Failed to send message"
    /\ newMessage = <<"a">>
    /\ ~sending
    /\ chatPosts = <<>>
    /\ serverNextId = 1
    /\ Len(chat.messages) = 1
    /\ chat.messages[1].id = 0

\* C15 (as claimed): the real-time emission does not depend on the outcome
\* of the durable call: when the POST of a submitted message has failed,
\* send_message for that message has been emitted all the same; and no
\* emission changes the sender's timeline.
C15_EmitIndependentOfOutcome ==
    [][\A i \in 1..Len(chatPosts) :
          (sendRejected(i) /\ chatPosts[i].socket # NoSocket) =>
              \E k \in 1..Len(emitted') :
                  emitted'[k] = SendMessage(chatPosts[i].chatId, chatPosts[i].content)]_vars

\* C18 (as claimed): the resolution of a request of a chat screen that has
\* been torn down changes no state, shows no notification and does not
\* navigate.
C18_StaleResponseIgnored ==
    [][/\ \A i \in 1..Len(chatFetches) :
             ((fetchChatRejected(i) \/ \E h \in Histories : fetchChatResolved(i, h))
                 /\ ~Live(chatFetches[i].inst)) =>
                 UNCHANGED <<chat, chatLoading, chatToast, route, chatMounted, emitted>>
       /\ \A i \in 1..Len(chatPosts) :
             ((sendRejected(i) \/ \E ts \in Times : sendResolved(i, ts))
                 /\ ~Live(chatPosts[i].inst)) =>
                 UNCHANGED <<chat, newMessage, sending, chatToast, route, chatMounted,
                             emitted>>]_vars

\* C19: a receive_message changes the timeline only when its chatId is the
\* open conversation's; on a loaded timeline it then appends exactly one
\* message with the event's sender, text and timestamp at the end; an event
\* of another conversation leaves timeline, typing flags and input unchanged.
C19_LiveMessageFilter ==
    [][\A d \in LiveEvents :
          receive_message(d) =>
              /\ (chat' # chat) => d.chatId = chatId
              /\ (d.chatId = chatId /\ chat.present) =>
                    /\ Len(chat'.messages) = Len(chat.messages) + 1
                    /\ IsPrefix(chat.messages, chat'.messages)
                    /\ chat'.messages[Len(chat'.messages)].sender = d.sender
                    /\ chat'.messages[Len(chat'.messages)].content = d.message
                    /\ chat'.messages[Len(chat'.messages)].timestamp = d.timestamp
              /\ (d.chatId # chatId) =>
                    UNCHANGED <<chat, typing, otherUserTyping, newMessage>>]_vars

\* C19 witness: conversation c2 is open and a live message of the other
\* participant with timestamp 2 is the last of its timeline, after the history.
C19_Witness ==
    /\ FormShown
    /\ chatId = "c2"
    /\ Len(chat.messages) = 2
    /\ chat.messages[2].id = -1
    /\ chat.messages[2].sender = "other"
    /\ chat.messages[2].timestamp = 2
    /\ newMessage = <<>>

\* C20: a typing event tagged for the open conversation and sent by another
\* identity sets the flag to its kind (user_typing true, user_stop_typing
\* false); an event of the viewer or of another conversation leaves the flag
\* alone; and the flag of a mounted screen changes by no other step, so it is
\* the kind of the last such event received.
C20_OtherTypingFlag ==
    [][/\ \A d \in TypingEvents :
             /\ user_typing(d) =>
                   otherUserTyping' = IF d.chatId = chatId /\ d.userId # Me
                                      THEN TRUE ELSE otherUserTyping
             /\ user_stop_typing(d) =>
                   otherUserTyping' = IF d.chatId = chatId /\ d.userId # Me
                                      THEN FALSE ELSE otherUserTyping
       /\ (otherUserTyping' # otherUserTyping /\ chatInst' = chatInst) =>
             \E d \in TypingEvents :
                 /\ d.chatId = chatId
                 /\ d.userId # Me
                 /\ IF otherUserTyping' THEN user_typing(d) ELSE user_stop_typing(d)]_vars

\* C20 witness: the other participant is shown as typing while this client
\* has a message in flight.
C20_Witness ==
    /\ chatMounted
    /\ otherUserTyping
    /\ sending
    /\ chat.present

----------------------------------------------------------------------------
(* Discovery feed: decision failure and single-flight guard *)

\* C16: when the swipe request fails the error toast is shown, cursor and
\* batch are what they were, no batch request is issued and the guard is
\* released, so the candidate at the cursor is still the one to decide.
C16_DecisionFailure ==
    [][handleSwipeRejected =>
          /\ dashToast' = "Swipe failed"
          /\ currentIndex' = currentIndex
          /\ potentialMatches' = potentialMatches
          /\ dashFetches' = dashFetches
          /\ decided' = decided
          /\ ~swiping'
          /\ swipeReq' = NoSwipe]_vars

\* C16 witness: the decision on the second candidate of a batch failed after
\* the first one succeeded: the card of the second candidate is shown with the
\* buttons enabled.
C16_Witness ==
    /\ dashToast = "Swipe failed"
    /\ CanDecide
    /\ currentIndex = 1
    /\ potentialMatches[1] \in decided
    /\ potentialMatches[2] \notin decided
    /\ swipeReq = NoSwipe

\* C17: no swipe request is submitted while a decision is in flight or while
\* the cursor is at or past the end of the batch: a request outstanding
\* means the guard is set, and a step taken with the guard set or the cursor
\* past the end leaves the outstanding request as it is or completes it.
C17_SingleFlight ==
    /\ [](swipeReq # NoSwipe => swiping)
    /\ [][(swiping \/ currentIndex >= Len(potentialMatches)) =>
             (swipeReq' = swipeReq \/ swipeReq' = NoSwipe)]_vars
    /\ [][\A a \in {"like", "pass"} :
             (handleSwipe(a) /\ swipeReq' # swipeReq) =>
                 /\ swipeReq = NoSwipe
                 /\ swipeReq'.target = potentialMatches[currentIndex + 1]
                 /\ swipeReq'.action = a]_vars

\* C17 witness: the decision on the second candidate is in flight, alone,
\* with the guard set.
C17_Witness ==
    /\ swipeReq # NoSwipe
    /\ swipeReq.index = 1
    /\ swiping
    /\ DashView = "card"

----------------------------------------------------------------------------
(* Chat screen: teardown, load outcome, typing events, conversation change *)

\* C21: the handlers on the socket are those of the mounted screen for its
\* current conversation id: after an unmount none of the three is left, and
\* after a change of the conversation id none is bound to the old id.
C21_TeardownUnsubscribes ==
    /\ ~chatMounted => listeners = {}
    /\ \A l \in listeners :
          /\ l.chatId = chatId
          /\ l.event \in {"receive_message", "user_typing", "user_stop_typing"}
    /\ (chatMounted /\ socket # NoSocket) => listeners = ChatListeners(chatId)

\* C21 witness: the screen went from conversation c1 to c2: it joined both
\* rooms and its handlers are those bound to c2.
C21_Witness ==
    /\ chatMounted
    /\ chatId = "c2"
    /\ Len(emitted) >= 2
    /\ emitted[1] = [event |-> "join_chat", chatId |-> "c1", message |-> <<>>]
    /\ emitted[2] = [event |-> "join_chat", chatId |-> "c2", message |-> <<>>]
    /\ listeners = ChatListeners("c2")

\* C22: a chat screen is mounted loading, without a timeline; a failed fetch
\* of the mounted screen clears loading, leaves the timeline null, shows the
\* toast and navigates to the conversation list; a successful one clears
\* loading and holds exactly the fetched conversation; the mounted screen is
\* out of loading only after its fetch resolved, and then with a timeline.
C22_ChatLoadOutcome ==
    /\ [](chatMounted =>
            IF chatLoading
            THEN ~chat.present
            ELSE /\ chat.present
                 /\ chat.id = chatId
                 /\ \A i \in 1..Len(chatFetches) : ~Live(chatFetches[i].inst))
    /\ [][/\ (\E c \in ChatIds : ChatMount(c)) => (chatLoading' /\ chat' = NoChat)
          /\ \A i \in 1..Len(chatFetches) :
                /\ (fetchChatRejected(i) /\ Live(chatFetches[i].inst)) =>
                       /\ ~chatLoading'
                       /\ chat' = NoChat
                       /\ chatToast' = "Failed to load chat"
                       /\ route' = "matches"
                       /\ ~chatMounted'
                /\ \A h \in Histories :
                       (fetchChatResolved(i, h) /\ Live(chatFetches[i].inst)) =>
                           /\ ~chatLoading'
                           /\ chat' = [present |-> TRUE, id |-> chatId, messages |-> h]
                           /\ chatMounted'
                           /\ route' = "chat"]_vars

\* C22 witness: the fetch of the opened conversation failed: the toast is
\* shown and the router is back on the conversation list, no timeline held.
C22_Witness ==
    /\ chatInst = 1
    /\ ~chatMounted
    /\ ~chatLoading
    /\ chat = NoChat
    /\ chatToast = "Failed to load chat"
    /\ route = "matches"
    /\ chatFetches = <<>>

\* The typing_start / typing_stop events emitted for conversation cid.
TypingEmitted(cid) ==
    SelectSeq(emitted, LAMBDA e : e.event \in {"typing_start", "typing_stop"}
                                     /\ e.chatId = cid)

\* C25 (as claimed): the typing events a chat screen emits for its
\* conversation alternate, beginning with typing_start, and the local typing
\* flag of the mounted screen is true exactly after a typing_start that has
\* not been followed by its typing_stop.
C25_TypingAlternates ==
    chatInst >= 1 =>
        /\ \A k \in 1..Len(TypingEmitted(chatId)) :
              TypingEmitted(chatId)[k].event =
                  IF k % 2 = 1 THEN "typing_start" ELSE "typing_stop"
        /\ chatMounted => (typing <=> (Len(TypingEmitted(chatId)) % 2 = 1))

\* C26 (as claimed): once the fetch for the current conversation id of the
\* mounted screen has resolved, the timeline held is that conversation's; a
\* late response for another conversation id changes nothing.
C26_TimelineOfCurrentConversation ==
    /\ []((chatMounted /\ chat.present
             /\ \A i \in 1..Len(chatFetches) :
                   ~(Live(chatFetches[i].inst) /\ chatFetches[i].chatId = chatId))
          => chat.id = chatId)
    /\ [][/\ \A i \in 1..Len(chatFetches), h \in Histories :
                (fetchChatResolved(i, h) /\ chatFetches[i].chatId # chatId) => chat' = chat
          /\ \A i \in 1..Len(chatPosts), ts \in Times :
                (sendResolved(i, ts) /\ chatPosts[i].chatId # chatId) => chat' = chat]_vars

\* C29: a durable send is posted only by a submit made with no send in
\* flight and a non-blank input, and carries the trimmed input; a submit of a
\* blank input changes nothing; so a screen has at most one send outstanding,
\* its guard set, and every content posted is trimmed and non-empty.
C29_SendGuards ==
    /\ [](/\ \A i, j \in 1..Len(chatPosts) :
                chatPosts[i].inst = chatPosts[j].inst => i = j
          /\ \A i \in 1..Len(chatPosts) :
                /\ chatPosts[i].content # <<>>
                /\ Trim(chatPosts[i].content) = chatPosts[i].content
                /\ Live(chatPosts[i].inst) => sending)
    /\ [][/\ (Len(chatPosts') > Len(chatPosts)) =>
                /\ ~sending
                /\ Trim(newMessage) # <<>>
                /\ chatPosts' = Append(chatPosts,
                                       [inst |-> chatInst, chatId |-> chatId,
                                        socket |-> socket, content |-> Trim(newMessage)])
          /\ (handleSendMessage /\ (sending \/ Trim(newMessage) = <<>>)) =>
                UNCHANGED <<chatPosts, emitted, newMessage, chat, sending, typing>>]_vars

\* C29 witness: the user typed a blank: the input is whitespace-only with
\* the guard free, and nothing was posted.
C29_Witness ==
    /\ FormShown
    /\ newMessage = <<" ">>
    /\ typing
    /\ ~sending
    /\ chatPosts = <<>>
    /\ serverNextId = 1

----------------------------------------------------------------------------
(* Discovery feed: filters and batch requests *)

\* The request parameters of a filter set: its non-empty fields, no others.
IsParamsOf(p, f) ==
    /\ \A k \in FilterKeys : f[k] # "" => <<k, f[k]>> \in p
    /\ \A e \in p : e[1] \in FilterKeys /\ e[2] # "" /\ e[2] = f[e[1]]

\* C23: Apply issues one batch request with the current filter values and
\* shows the spinner; Clear issues the request Apply would issue with every
\* field empty (no parameter at all) and leaves the stored filters all-empty;
\* the answer to a batch request puts the cursor at zero over its batch.
C23_FilterApplication ==
    [][/\ applyFilters =>
             /\ Len(dashFetches') = Len(dashFetches) + 1
             /\ IsParamsOf(dashFetches'[Len(dashFetches')].params, filters)
             /\ ~dashFetches'[Len(dashFetches')].fromSwipe
             /\ filters' = filters
             /\ dashLoading'
       /\ clearFilters =>
             /\ Len(dashFetches') = Len(dashFetches) + 1
             /\ dashFetches'[Len(dashFetches')] =
                    [params |-> BuildParams(Given(EmptyFilters)), fromSwipe |-> FALSE]
             /\ dashFetches'[Len(dashFetches')].params = {}
             /\ filters' = EmptyFilters
             /\ dashLoading'
       /\ \A i \in 1..Len(dashFetches) :
             fetchResolved(i, potentialMatches') =>
                 /\ currentIndex' = 0
                 /\ ~dashLoading'
                 /\ DashView' = IF potentialMatches' = <<>> THEN "empty" ELSE "card"]_vars

\* C23 witness: Apply was clicked with minAge set: the request carries
\* minAge alone, the spinner is shown and the modal is closed.
C23_Witness ==
    /\ dashFetches = << [params |-> {<<"minAge", "x">>}, fromSwipe |-> FALSE] >>
    /\ dashLoading
    /\ ~showFilters
    /\ filters["minAge"] = "x"
    /\ Len(potentialMatches) > 0

\* C27 (as claimed): the batch request issued by the decision on the last
\* candidate carries the filter set last applied (all-empty when none was),
\* whatever was edited in the modal and dismissed with Cancel.
C27_RefetchUsesAppliedFilters ==
    [][(\E m \in BOOLEAN : handleSwipeResolved(m) /\ Len(dashFetches') > Len(dashFetches)) =>
          IsParamsOf(dashFetches'[Len(dashFetches')].params, appliedFilters)]_vars

\* C28 (as claimed): when every batch request in flight has been answered,
\* the batch shown is the answer to the most recently issued one: it is not
\* the answer to a request older than one that was answered before it.
C28_LatestRequestWins ==
    dashFetches = <<>> => ~shownStale

----------------------------------------------------------------------------
(* In-flight guards and loading flags *)

\* C30: every started decision returns swiping to false and every started
\* send returns sending to false (for the screen instance that started it),
\* and the loading flag of each screen shown is cleared; the failure of a
\* decision, of the refetch a decision awaits, of a send and of each screen's
\* fetch releases the flag as its success does.
C30_GuardsReleased ==
    /\ swiping ~> ~swiping
    /\ (chatMounted /\ sending) ~> (~chatMounted \/ ~sending)
    /\ (route = "dashboard" /\ dashLoading) ~> ~dashLoading
    /\ (route = "matches" /\ matchesLoading) ~> ~matchesLoading
    /\ (chatMounted /\ chatLoading) ~> (~chatMounted \/ ~chatLoading)
    /\ [][/\ (handleSwipeRejected \/ \E m \in BOOLEAN :
                    handleSwipeResolved(m) /\ dashFetches' = dashFetches) => ~swiping'
          /\ \A i \in 1..Len(dashFetches) :
                ((fetchResolved(i, potentialMatches')) \/ fetchRejected(i)) =>
                    /\ ~dashLoading'
                    /\ dashFetches[i].fromSwipe => ~swiping'
          /\ \A i \in 1..Len(chatPosts) :
                (((\E ts \in SomeTimes : sendResolved(i, ts)) \/ sendRejected(i))
                    /\ Live(chatPosts[i].inst)) => ~sending'
          /\ \A i \in 1..Len(chatFetches) :
                (((\E h \in SomeHistories : fetchChatResolved(i, h)) \/ fetchChatRejected(i))
                    /\ Live(chatFetches[i].inst)) => ~chatLoading'
          /\ (matchesLoading /\ (AllRejected(matchesGets') \/ AllFulfilled(matchesGets'))) =>
                ~matchesLoading']_vars

\* C30 witness: the decision on the last candidate succeeded and the refetch
\* it awaited failed: the guard is released and the spinner is gone.
C30_Witness ==
    /\ dashToast = "Failed to load potential matches"
    /\ Len(potentialMatches) = 1
    /\ decided = {potentialMatches[1]}
    /\ dashFetches = <<>>
    /\ swipeReq = NoSwipe
    /\ ~swiping
    /\ ~dashLoading

====
